---- MODULE Spec2Model ----
(***************************************************************************)
(* Demand forecasting and inventory optimisation services of the           *)
(* AI4SupplyChain repository (src/services/forecasting.py and              *)
(* src/services/optimization.py), with the simulated operations of         *)
(* src/services/simulation.py, modelled as a state machine over the        *)
(* transaction store.                                                      *)
(*                                                                         *)
(* Numbers.  The services compute with Python floats.  The model computes  *)
(* with exact rationals <<n, d>> (d > 0, lowest terms); round(x, k) is     *)
(* round-half-even on the exact value and math.sqrt is evaluated on a      *)
(* decimal grid (see Sqrt).  Identities are therefore those of the real    *)
(* numbers: a difference of one unit in the last place of a double is not  *)
(* visible here, a difference of a cent after round(x, 2) is.  Quotients   *)
(* and products that follow a square root are carried to four decimals     *)
(* (see FMul and FDiv).  Time is counted in whole days.                    *)
(***************************************************************************)
EXTENDS Integers, Sequences, FiniteSets, TLC

VARIABLES
    products,       \* the products table: id -> the columns the services read
    suppliers,      \* the suppliers table: id -> lead_time_days
    inventory,      \* the inventory table: product id -> stock levels
    transactions,   \* rows of the transactions table, in insertion order
    forecasts,      \* rows of the forecast_results table, in insertion order
    recorded,       \* how many rows were added since the initial state
    now,            \* datetime.utcnow(), in days
    phase,          \* "idle": no request in progress; "done": a request returned
    call,           \* the request served last: operation and arguments
    result,         \* the value the request returned
    calls           \* the forecasting methods the request invoked, in order

vars == <<products, suppliers, inventory, transactions, forecasts, recorded, now,
          phase, call, result, calls>>

----------------------------------------------------------------------------
(* Bounds of the model *)

MaxSeedDays == 15     \* shipment dates in the initial history
MaxStride   == 3      \* days between two shipment dates of a sparse history
MaxHorizon  == 3      \* forecast horizons requested directly: 1..MaxHorizon
MaxNew      == 1      \* rows recorded while the model runs
Today       == 100    \* the day number of utcnow()

----------------------------------------------------------------------------
(* Exact rational arithmetic *)

Abs(x) == IF x < 0 THEN -x ELSE x

Min(a, b) == IF a <= b THEN a ELSE b

RECURSIVE GCD(_, _)
GCD(a, b) == IF b = 0 THEN a ELSE GCD(b, a % b)

Norm(n, d) ==
    LET s == IF d < 0 THEN -1 ELSE 1
        g == GCD(Abs(n), Abs(d))
    IN  IF n = 0 THEN <<0, 1>> ELSE <<(s * n) \div g, (s * d) \div g>>

I(n) == <<n, 1>>

RNeg(x) == <<-x[1], x[2]>>

RAdd(x, y) ==
    LET g == GCD(x[2], y[2])
        l == (x[2] \div g) * y[2]
    IN  Norm(x[1] * (l \div x[2]) + y[1] * (l \div y[2]), l)

RSub(x, y) == RAdd(x, RNeg(y))

RMul(x, y) ==
    LET g1 == GCD(Abs(x[1]), y[2])
        g2 == GCD(Abs(y[1]), x[2])
    IN  IF x[1] = 0 \/ y[1] = 0 THEN <<0, 1>>
        ELSE <<(x[1] \div g1) * (y[1] \div g2), (x[2] \div g2) * (y[2] \div g1)>>

RInv(x) == IF x[1] < 0 THEN <<-x[2], -x[1]>> ELSE <<x[2], x[1]>>

RDiv(x, y) == RMul(x, RInv(y))

RSign(x) == IF x[1] > 0 THEN 1 ELSE IF x[1] < 0 THEN -1 ELSE 0

RLt(x, y) == RSign(RSub(x, y)) < 0

RLe(x, y) == RSign(RSub(x, y)) <= 0

RMax(x, y) == IF RLt(x, y) THEN y ELSE x

\* Sums of a sequence, by halves (the recursion stays shallow).
RECURSIVE RSumRange(_, _, _)
RSumRange(s, lo, hi) ==
    IF lo > hi THEN <<0, 1>>
    ELSE IF lo = hi THEN s[lo]
    ELSE LET mid == (lo + hi) \div 2
         IN  RAdd(RSumRange(s, lo, mid), RSumRange(s, mid + 1, hi))

RSum(s) == RSumRange(s, 1, Len(s))

RECURSIVE ISumRange(_, _, _)
ISumRange(s, lo, hi) ==
    IF lo > hi THEN 0
    ELSE IF lo = hi THEN s[lo]
    ELSE LET mid == (lo + hi) \div 2
         IN  ISumRange(s, lo, mid) + ISumRange(s, mid + 1, hi)

ISum(s) == ISumRange(s, 1, Len(s))

RFloor(x) == x[1] \div x[2]

Pow10(k) == CASE k = 0 -> 1 [] k = 1 -> 10 [] k = 2 -> 100 [] k = 3 -> 1000

\* round(x, k): the multiple of 10^-k nearest to x, a tie going to the even one
Round(x, k) ==
    LET whole == RFloor(x)
        rest  == (x[1] % x[2]) * Pow10(k)            \* (x - whole) * 10^k * x[2]
        f     == whole * Pow10(k) + rest \div x[2]    \* floor(x * 10^k)
        twice == 2 * (rest % x[2])                   \* 2 * frac(x * 10^k) * x[2]
        up    == twice > x[2] \/ (twice = x[2] /\ f % 2 = 1)
    IN  Norm(IF up THEN f + 1 ELSE f, Pow10(k))

\* the largest integer whose square is at most n, by bisection over lo..hi
RECURSIVE ISqrtIn(_, _, _)
ISqrtIn(n, lo, hi) ==
    IF lo >= hi THEN lo
    ELSE LET mid == (lo + hi + 1) \div 2
         IN  IF mid * mid <= n THEN ISqrtIn(n, mid, hi) ELSE ISqrtIn(n, lo, mid - 1)

ISqrt(n) == ISqrtIn(n, 0, Min(n, 46340))

\* math.sqrt(x) for x >= 0, truncated to a decimal grid: hundredths for
\* small arguments, coarser for large ones so that the integers stay within
\* 32 bits.
Sqrt(x) ==
    LET room(g) == 2000000000 \div (g * g)
        fits(g) == RFloor(x) < room(g) /\ x[2] <= room(g)
        g == IF fits(100) THEN 100 ELSE IF fits(10) THEN 10 ELSE 1
        scaled == RFloor(x) * g * g + ((x[1] % x[2]) * g * g) \div x[2]
    IN  Norm(ISqrt(scaled), g)

\* Floats that follow a square root are carried as ten-thousandths,
\* truncated downwards: OnGrid(x) is floor(x * 10^4).
OnGrid(x) == RFloor(x) * 10000 + ((x[1] % x[2]) * 10000) \div x[2]

\* x * y to four decimals; the product is formed in parts so that the
\* integers stay within 32 bits.  The sign of the exact product is kept.
FMul(x, y) ==
    LET a  == OnGrid(x)
        b  == OnGrid(y)
        qa == a \div 10000
        ra == a % 10000
        qb == b \div 10000
        rb == b % 10000
    IN  Norm(qa * qb * 10000 + qa * rb + ra * qb + (ra * rb) \div 10000, 10000)

\* floor(n * 10^k / d) for 0 <= n < d, digit by digit
RECURSIVE Digits(_, _, _)
Digits(n, d, k) ==
    IF k = 0 THEN 0
    ELSE ((n * 10) \div d) * Pow10(k - 1) + Digits((n * 10) % d, d, k - 1)

\* x / y (y # 0) to four decimals, by long division
FDiv(x, y) ==
    LET s == IF y[1] < 0 THEN -1 ELSE 1
        a == s * OnGrid(x)
        b == s * OnGrid(y)
    IN  Norm((a \div b) * 10000 + Digits(a % b, b, 4), 10000)

----------------------------------------------------------------------------
(* The transactions table and the demand history read from it *)

ProductIds == {1, 2}

\* A row of the transactions table: the columns the services read.
Row(p, t, q, ts) ==
    [product_id |-> p, transaction_type |-> t, quantity |-> q, timestamp |-> ts]

\* A sequence given by a rule, as the tuple of its values (each value is
\* computed once, not at every use).
Listed(f) == f \o <<>>

\* the elements of a set of dates in increasing order
SortedDates(S) ==
    Listed([k \in 1..Cardinality(S) |->
              CHOOSE x \in S : Cardinality({y \in S : y < x}) = k - 1])

RECURSIVE SumSignedOn(_, _)
\* sum of the quantities as stored over the rows `idx` of the table `txs`
SumSignedOn(txs, idx) ==
    IF idx = {} THEN 0
    ELSE LET i == CHOOSE x \in idx : TRUE
         IN  txs[i].quantity + SumSignedOn(txs, idx \ {i})

RECURSIVE SumAbsOn(_, _)
\* sum of abs(quantity) over the rows `idx` of the table `txs`
SumAbsOn(txs, idx) ==
    IF idx = {} THEN 0
    ELSE LET i == CHOOSE x \in idx : TRUE
         IN  Abs(txs[i].quantity) + SumAbsOn(txs, idx \ {i})

\* get_historical_demand: one row per date with a shipment of the product
\* time-stamped at or after the cutoff, the date's demand being the sum of
\* the absolute shipment quantities; rows ordered by date.
get_historical_demand(txs, t, product_id, days) ==
    LET cutoff_date == t - days
        rows == {i \in DOMAIN txs :
                    /\ txs[i].product_id = product_id
                    /\ txs[i].transaction_type = "shipment"
                    /\ txs[i].timestamp >= cutoff_date}
        dates == SortedDates({txs[i].timestamp : i \in rows})
    IN  Listed([k \in DOMAIN dates |->
                  [date   |-> dates[k],
                   demand |-> SumAbsOn(txs, {i \in rows : txs[i].timestamp = dates[k]})]])

\* df.set_index('date').asfreq('D', fill_value=0): every calendar day from
\* the first date to the last, days without a row filled with zero.
asfreq(df) ==
    IF df = <<>> THEN <<>>
    ELSE LET first == df[1].date
             last  == df[Len(df)].date
         IN  Listed([k \in 1..(last - first + 1) |->
                       IF \E j \in DOMAIN df : df[j].date = first + k - 1
                       THEN (LET j == CHOOSE j \in DOMAIN df : df[j].date = first + k - 1
                             IN  df[j].demand)
                       ELSE 0])

Demands(df) == Listed([k \in DOMAIN df |-> df[k].demand])

----------------------------------------------------------------------------
(* Forecasting methods (src/services/forecasting.py) *)

\* A result that carries the key "error" (Python: "error" in result).
IsError(r) == "error" \in DOMAIN r

\* An error message that does not say how many days are needed.
ErrorWithoutMinimum(text, n) == [error |-> [message |-> text, need |-> 0]]

\* {"error": text}; `need` is the number of days the text names
InsufficientData(text, n) == [error |-> [message |-> text, need |-> n]]

CalculationFailed == [error |-> [message |-> "Forecast calculation failed", need |-> 0]]

\* mean of all the values of s
MeanOfAll(s, w) == Norm(ISum(s), IF Len(s) = 0 THEN 1 ELSE Len(s))

\* mean of the last w values of s (all of s when it is shorter)
MeanOfLast(s, w) ==
    LET n == Len(s)
        k == IF n < w THEN n ELSE w
    IN  Norm(ISum(SubSeq(s, n - k + 1, n)), k)

moving_average_forecast(txs, t, product_id, horizon, window) ==
    LET df == get_historical_demand(txs, t, product_id, window * 2)
        \* df['demand'].rolling(window).mean().iloc[-1]; NaN when fewer than
        \* `window` rows exist, and then the mean of the whole column
        last_ma == MeanOfLast(Demands(df), window)
        total_forecast == RMul(last_ma, I(horizon))
    IN  IF Len(df) < window
        THEN InsufficientData("Insufficient data. Need at least {window} days of data.", window)
        ELSE [product_id      |-> product_id,
              forecast_method |-> "moving_average",
              horizon_days    |-> horizon,
              total_forecast  |-> total_forecast,
              daily_average   |-> last_ma,
              parameters      |-> [window |-> window],
              data_points     |-> Len(df)]

\* One step of statsmodels' additive-trend (Holt) recursion with smoothing
\* parameters alpha, beta: the state (level, trend, sum of squared one-step
\* errors so far) after the observation obs.
HoltStep(st, obs, alpha, beta) ==
    LET pred  == st.level + st.trend
        e     == obs - pred
        level == alpha * obs + (1 - alpha) * pred
    IN  [level |-> level,
         trend |-> beta * (level - st.level) + (1 - beta) * st.trend,
         sse   |-> st.sse + e * e]

\* The recursion over y[lo..hi] from the state st, by halves.
RECURSIVE HoltRange(_, _, _, _, _, _)
HoltRange(y, lo, hi, alpha, beta, st) ==
    IF lo > hi THEN st
    ELSE IF lo = hi THEN HoltStep(st, y[lo], alpha, beta)
    ELSE LET mid == (lo + hi) \div 2
             half == HoltRange(y, lo, mid, alpha, beta, st)
         IN  \* the first half is evaluated before the second is entered
             IF half.sse >= 0 THEN HoltRange(y, mid + 1, hi, alpha, beta, half)
             ELSE half

\* The final state of the recursion over the whole series from the initial
\* state (l0, b0).
HoltRun(y, alpha, beta, l0, b0) ==
    HoltRange(y, 1, Len(y), alpha, beta, [level |-> l0, trend |-> b0, sse |-> 0])

HoltGrid == <<<<1, 1>>, <<1, 0>>, <<0, 1>>, <<0, 0>>>>

\* ExponentialSmoothing(y, trend='add', seasonal=None,
\* initialization_method='estimated').fit(): least squares over the
\* parameter grid, the initial state back-cast from the first two points.
HoltFit(y) ==
    LET b0 == y[2] - y[1]
        l0 == y[1] - b0
        runs == [i \in DOMAIN HoltGrid |->
                    HoltRun(y, HoltGrid[i][1], HoltGrid[i][2], l0, b0)]
        best == CHOOSE i \in DOMAIN runs :
                    \A j \in DOMAIN runs :
                        \/ runs[i].sse < runs[j].sse
                        \/ (runs[i].sse = runs[j].sse /\ i <= j)
    IN  runs[best]

\* ExponentialSmoothing(y, trend=None, seasonal=None,
\* initialization_method='estimated').fit(): the same without trend.
SimpleFit(y) ==
    LET runs == [a \in {0, 1} |-> HoltRun(y, a, 0, y[1], 0)]
    IN  IF runs[1].sse <= runs[0].sse THEN runs[1] ELSE runs[0]

\* A forecast of one day too many.
HoltForecastOneMore(fit, horizon) ==
    Listed([k \in 1..(horizon + 1) |-> I(fit.level + k * fit.trend)])

\* fitted_model.forecast(horizon): level + k * trend for k = 1..horizon
HoltForecast(fit, horizon) ==
    Listed([k \in 1..horizon |-> I(fit.level + k * fit.trend)])

\* demand_series.ewm(alpha).mean().iloc[-1]: the mean of the series weighted
\* by (1 - alpha)^age, as the pair <<weighted sum, sum of weights>>
RECURSIVE EwmSums(_, _)
EwmSums(y, alpha) ==
    IF y = <<>> THEN <<I(0), I(0)>>
    ELSE LET prev == EwmSums(SubSeq(y, 1, Len(y) - 1), alpha)
             keep == RSub(I(1), alpha)
         IN  <<RAdd(I(y[Len(y)]), RMul(keep, prev[1])),
               RAdd(I(1), RMul(keep, prev[2]))>>

EwmMean(y, alpha) == RDiv(EwmSums(y, alpha)[1], EwmSums(y, alpha)[2])

\* What the statsmodels calls of one request do: whether the fit with trend
\* and the fit without trend raise.
\* The fit without trend is attempted only after the fit with trend raised.
LibOutcomes ==
    {lib \in [trend_fit_raises : BOOLEAN, simple_fit_raises : BOOLEAN] :
        lib.simple_fit_raises => lib.trend_fit_raises}

\* The result of exponential smoothing from the per-day forecast.
SmoothingResult(product_id, horizon, forecast, data_points) ==
    LET total_forecast == RSum(forecast)
        daily_average == RDiv(total_forecast, I(horizon))
    IN  [product_id      |-> product_id,
         forecast_method |-> "exponential_smoothing",
         horizon_days    |-> horizon,
         total_forecast  |-> total_forecast,
         daily_average   |-> daily_average,
         forecast_series |-> forecast,
         parameters      |-> [alpha |-> <<3, 10>>],
         data_points     |-> data_points]

\* Exponential smoothing that gives up when the trend fit raises.
SmoothedWithoutRetry(product_id, horizon, demand_series, lib) ==
    IF Len(demand_series) >= 14
    THEN (IF ~lib.trend_fit_raises
          THEN SmoothingResult(product_id, horizon,
                               HoltForecast(HoltFit(demand_series), horizon),
                               Len(demand_series))
          ELSE CalculationFailed)
    ELSE SmoothingResult(product_id, horizon,
                         [k \in 1..horizon |-> EwmMean(demand_series, <<3, 10>>)],
                         Len(demand_series))

\* Exponential smoothing of the series resampled to days.
SmoothedSeries(product_id, horizon, demand_series, lib) ==
    IF Len(demand_series) >= 14
    THEN (IF ~lib.trend_fit_raises
          THEN SmoothingResult(product_id, horizon,
                               HoltForecast(HoltFit(demand_series), horizon),
                               Len(demand_series))
          ELSE IF ~lib.simple_fit_raises
          THEN SmoothingResult(product_id, horizon,
                               HoltForecast(SimpleFit(demand_series), horizon),
                               Len(demand_series))
          ELSE CalculationFailed)
    ELSE \* alpha = 0.3: the weighted mean, repeated for every day
         SmoothingResult(product_id, horizon,
                         [k \in 1..horizon |-> EwmMean(demand_series, <<3, 10>>)],
                         Len(demand_series))

exponential_smoothing_forecast(txs, t, product_id, horizon, lib) ==
    LET df == get_historical_demand(txs, t, product_id, 90)
    IN  IF Len(df) < 14
        THEN InsufficientData("Insufficient data. Need at least 14 days of data.", 14)
        ELSE SmoothedSeries(product_id, horizon, asfreq(df), lib)

\* The extrapolated values as they are, negative ones included.
Unclamped(values) == values

\* np.maximum(forecast_values, 0)
ClampNonNegative(values) == Listed([k \in DOMAIN values |-> RMax(values[k], I(0))])

\* The result of trend analysis from the fitted line.
TrendResult(product_id, horizon, n, line) ==
    LET slope == line[1]
        intercept == line[2]
        \* forecast_x = np.arange(n, n + horizon)
        raw_values ==
            Listed([k \in 1..horizon |-> RAdd(RMul(slope, I(n + k - 1)), intercept)])
        forecast_values == ClampNonNegative(raw_values)
        total_forecast == RSum(forecast_values)
        daily_average == RDiv(total_forecast, I(horizon))
    IN  [product_id      |-> product_id,
         forecast_method |-> "trend_analysis",
         horizon_days    |-> horizon,
         total_forecast  |-> total_forecast,
         daily_average   |-> daily_average,
         forecast_series |-> forecast_values,
         trend_slope     |-> slope,
         parameters      |-> [slope |-> slope, intercept |-> intercept],
         data_points     |-> n]

\* The least-squares line through the series y over x = 0 .. n-1, as the
\* pair <<slope, intercept>>.
LinearRegression(y) ==
    LET n == Len(y)
        sum_x  == ISum([k \in 1..n |-> k - 1])
        sum_y  == ISum(y)
        sum_xy == ISum([k \in 1..n |-> (k - 1) * y[k]])
        sum_x2 == ISum([k \in 1..n |-> (k - 1) * (k - 1)])
        slope == Norm(n * sum_xy - sum_x * sum_y, n * sum_x2 - sum_x * sum_x)
        intercept == RDiv(RSub(I(sum_y), RMul(slope, I(sum_x))), I(n))
    IN  <<slope, intercept>>

\* Trend analysis of the series resampled to days.
TrendOfSeries(product_id, horizon, y) ==
    TrendResult(product_id, horizon, Len(y), LinearRegression(y))

trend_analysis_forecast(txs, t, product_id, horizon) ==
    LET df == get_historical_demand(txs, t, product_id, 60)
    IN  IF Len(df) < 10
        THEN InsufficientData("Insufficient data for trend analysis. Need at least 10 days of data.", 10)
        ELSE TrendOfSeries(product_id, horizon, asfreq(df))

Methods == {"moving_average", "exponential_smoothing", "trend_analysis", "auto"}

Invocation(op, ret) == [op |-> op, ret |-> ret]

\* The requested method, and the moving average in its place when it failed.
ExplicitMethodWithFallback(method, ma14, es, ta) ==
    LET first == CASE method = "moving_average" -> Invocation("moving_average", ma14)
                   [] method = "exponential_smoothing" -> Invocation("exponential_smoothing", es)
                   [] method = "trend_analysis" -> Invocation("trend_analysis", ta)
    IN  IF IsError(first.ret) /\ method # "moving_average"
        THEN <<first, Invocation("moving_average", ma14)>>
        ELSE <<first>>

\* An explicitly requested method: that method is invoked, nothing else.
ExplicitMethod(method, ma14, es, ta) ==
    CASE method = "moving_average" -> <<Invocation("moving_average", ma14)>>
      [] method = "exponential_smoothing" -> <<Invocation("exponential_smoothing", es)>>
      [] method = "trend_analysis" -> <<Invocation("trend_analysis", ta)>>

\* The moving average tried first, exponential smoothing only if it failed.
MovingAverageFirst(es, ma14) ==
    IF ~IsError(ma14)
    THEN <<Invocation("moving_average", ma14)>>
    ELSE <<Invocation("moving_average", ma14), Invocation("exponential_smoothing", es)>>

\* method = "auto" with at least 14 dates: exponential smoothing, and the
\* moving average (default window) when exponential smoothing returned an error.
AutoWithHistory(es, ma14) ==
    IF ~IsError(es)
    THEN <<Invocation("exponential_smoothing", es)>>
    ELSE <<Invocation("exponential_smoothing", es), Invocation("moving_average", ma14)>>

\* The forecasting methods generate_forecast invokes, in order, each with
\* the value it returned.
generate_forecast_calls(txs, t, product_id, horizon, method, lib) ==
    LET ma14 == moving_average_forecast(txs, t, product_id, horizon, 14)
        es   == exponential_smoothing_forecast(txs, t, product_id, horizon, lib)
        ta   == trend_analysis_forecast(txs, t, product_id, horizon)
        df   == get_historical_demand(txs, t, product_id, 90)
    IN  CASE method \in {"moving_average", "exponential_smoothing", "trend_analysis"} ->
                ExplicitMethod(method, ma14, es, ta)
          [] method = "auto" ->
                IF Len(df) < 7 THEN <<>>
                ELSE IF Len(df) < 14
                THEN <<Invocation("moving_average",
                          moving_average_forecast(txs, t, product_id, horizon,
                                                  Min(7, Len(df))))>>
                ELSE AutoWithHistory(es, ma14)
          [] OTHER -> <<>>

\* What generate_forecast returns: the value of the last method invoked, or
\* its own error when it invoked none.
Returned(made, method) ==
    IF made # <<>> THEN made[Len(made)].ret
    ELSE IF method = "auto"
    THEN InsufficientData("Insufficient data for forecasting. Need at least 7 days of historical data.", 7)
    ELSE [error |-> [message |-> "Unknown forecast method", need |-> 0]]

generate_forecast(txs, t, product_id, horizon, method, lib) ==
    Returned(generate_forecast_calls(txs, t, product_id, horizon, method, lib), method)

----------------------------------------------------------------------------
(* Optimisation (src/services/optimization.py) *)

\* Optional arguments: <<>> is None, <<v>> is the value v.
None == <<>>

Some(v) == <<v>>

Failure(text) == [error |-> [message |-> text]]

CannotEstimate(forecast_result) ==
    [error |-> [message |-> "Cannot estimate demand", cause |-> forecast_result.error]]

\* z_scores.get(service_level, 1.65) over {0.90: 1.28, 0.95: 1.65, 0.99: 2.33}
ZScore(service_level) ==
    CASE service_level = <<9, 10>>   -> <<32, 25>>
      [] service_level = <<19, 20>>  -> <<33, 20>>
      [] service_level = <<99, 100>> -> <<233, 100>>
      [] OTHER -> <<33, 20>>

\* supplier.lead_time_days of the product's supplier; 7 when the product has
\* no supplier or the supplier row does not exist
LeadTimeDays(prods, sups, product_id) ==
    LET supplier_id == prods[product_id].supplier_id
    IN  IF supplier_id # 0 /\ supplier_id \in DOMAIN sups
        THEN sups[supplier_id].lead_time_days
        ELSE 7

\* The economic order quantity and the figures derived from it.
EoqResult(product_id, unit_cost, annual_demand, ordering_cost, holding_cost_rate, holding_cost_per_unit, eoq) ==
    LET number_of_orders == FDiv(annual_demand, eoq)
        time_between_orders == FDiv(I(365), number_of_orders)
        total_annual_cost ==
            RAdd(FMul(number_of_orders, ordering_cost),
                 FMul(FDiv(eoq, I(2)), holding_cost_per_unit))
    IN  [product_id    |-> product_id,
         eoq           |-> Round(eoq, 2),
         annual_demand |-> Round(annual_demand, 2),
         number_of_orders_per_year |-> Round(number_of_orders, 2),
         time_between_orders_days  |-> Round(time_between_orders, 1),
         total_annual_cost |-> Round(total_annual_cost, 2),
         parameters |-> [ordering_cost |-> ordering_cost,
                         holding_cost_rate |-> holding_cost_rate,
                         unit_cost |-> unit_cost,
                         holding_cost_per_unit |-> Round(holding_cost_per_unit, 2)]]

\* An order quantity that leaves the ordering cost out of the root.
EoqWithoutOrderingCost(product_id, unit_cost, annual_demand, ordering_cost, holding_cost_rate, holding_cost_per_unit) ==
    EoqResult(product_id, unit_cost, annual_demand, ordering_cost,
              holding_cost_rate, holding_cost_per_unit,
              Sqrt(RDiv(RMul(I(2), annual_demand), holding_cost_per_unit)))

\* math.sqrt((2 * annual_demand * ordering_cost) / holding_cost_per_unit);
\* the division by zero and the root of a negative number raise, and so
\* does the division by an order quantity of zero
EoqFromRatio(product_id, unit_cost, annual_demand, ordering_cost, holding_cost_rate, holding_cost_per_unit) ==
    IF RSign(holding_cost_per_unit) = 0
          \/ RSign(annual_demand) * RSign(ordering_cost) * RSign(holding_cost_per_unit) <= 0
    THEN Failure("EOQ calculation failed")
    ELSE EoqResult(product_id, unit_cost, annual_demand, ordering_cost,
                   holding_cost_rate, holding_cost_per_unit,
                   Sqrt(RDiv(RMul(RMul(I(2), annual_demand), ordering_cost),
                             holding_cost_per_unit)))

\* A demand test that lets every demand through.
NoDemandInvalid(demand) == FALSE

\* if annual_demand <= 0: ... ; if daily_demand <= 0: ...
InvalidDemand(demand) == RSign(demand) <= 0

\* The order quantity for a known annual demand.
EoqForDemand(product_id, unit_cost, annual_demand, ordering_cost, holding_cost_rate) ==
    IF InvalidDemand(annual_demand) THEN Failure("Annual demand must be positive")
    ELSE EoqFromRatio(product_id, unit_cost, annual_demand, ordering_cost,
                      holding_cost_rate, RMul(unit_cost, holding_cost_rate))

\* The order quantity for the annual demand extrapolated from a 90-day forecast.
EoqFromForecast(product_id, unit_cost, forecast_result, ordering_cost, holding_cost_rate) ==
    IF IsError(forecast_result) THEN CannotEstimate(forecast_result)
    ELSE EoqForDemand(product_id, unit_cost,
                      RMul(RDiv(forecast_result.total_forecast, I(90)), I(365)),
                      ordering_cost, holding_cost_rate)

calculate_eoq(prods, txs, t, product_id, annual_demand_arg, ordering_cost, holding_cost_rate, lib) ==
    IF product_id \notin DOMAIN prods THEN Failure("Product not found")
    ELSE IF annual_demand_arg = None
    THEN EoqFromForecast(product_id, prods[product_id].unit_cost,
                         generate_forecast(txs, t, product_id, 90, "auto", lib),
                         ordering_cost, holding_cost_rate)
    ELSE EoqForDemand(product_id, prods[product_id].unit_cost, annual_demand_arg[1],
                      ordering_cost, holding_cost_rate)

\* A reorder point that leaves the safety stock out.
ReorderPointWithoutSafetyStock(lead_time_demand, safety_stock) == lead_time_demand

\* reorder_point = lead_time_demand + safety_stock
ReorderPoint(lead_time_demand, safety_stock) == RAdd(lead_time_demand, safety_stock)

\* The reorder point from the daily demand of the forecast.
ReorderPointResult(product_id, lead_time_days, daily_demand, service_level, z_score) ==
    LET lead_time_demand == RMul(daily_demand, I(lead_time_days))
        demand_variability_factor == <<3, 10>>
        safety_stock == RMul(RMul(z_score, lead_time_demand), demand_variability_factor)
        reorder_point == ReorderPoint(lead_time_demand, safety_stock)
    IN  IF InvalidDemand(daily_demand) THEN Failure("Daily demand must be positive")
        ELSE [product_id       |-> product_id,
              reorder_point    |-> Round(reorder_point, 2),
              lead_time_demand |-> Round(lead_time_demand, 2),
              safety_stock     |-> Round(safety_stock, 2),
              daily_demand     |-> Round(daily_demand, 2),
              lead_time_days   |-> lead_time_days,
              service_level    |-> service_level,
              parameters |-> [z_score |-> z_score,
                              demand_variability_factor |-> demand_variability_factor]]

ReorderPointFromForecast(product_id, lead_time_days, forecast_result, service_level) ==
    IF IsError(forecast_result) THEN CannotEstimate(forecast_result)
    ELSE ReorderPointResult(product_id, lead_time_days, forecast_result.daily_average,
                            service_level, ZScore(service_level))

calculate_reorder_point(prods, sups, txs, t, product_id, service_level, lib) ==
    IF product_id \notin DOMAIN prods THEN Failure("Product not found")
    ELSE ReorderPointFromForecast(product_id, LeadTimeDays(prods, sups, product_id),
                                  generate_forecast(txs, t, product_id, 30, "auto", lib),
                                  service_level)

\* daily_demands.std() / daily_demands.mean() of the daily series (the
\* sample deviation, ddof = 1); 0.3 when the mean is zero
VariabilityOfSeries(daily_demands) ==
    LET n      == Len(daily_demands)
        sum    == ISum(daily_demands)
        sum_sq == ISum([k \in 1..n |-> daily_demands[k] * daily_demands[k]])
    IN  IF sum > 0
        THEN FDiv(Sqrt(Norm(n * sum_sq - sum * sum, n * (n - 1))), Norm(sum, n))
        ELSE <<3, 10>>

\* The variability estimated from the 60-day history resampled to days;
\* 0.3 when the history has at most 7 dates
EstimatedVariability(txs, t, product_id) ==
    LET historical_df == get_historical_demand(txs, t, product_id, 60)
    IN  IF Len(historical_df) > 7
        THEN VariabilityOfSeries(asfreq(historical_df))
        ELSE <<3, 10>>

\* The safety stock from the daily demand and its variability.
SafetyStockResult(product_id, unit_cost, lead_time_days, daily_demand, service_level, demand_variability, z_score) ==
    LET safety_stock ==
            FMul(FMul(FMul(z_score, Sqrt(I(lead_time_days))), daily_demand),
                 demand_variability)
        holding_cost_rate == <<1, 4>>
        annual_holding_cost == FMul(FMul(safety_stock, unit_cost), holding_cost_rate)
    IN  [product_id         |-> product_id,
         safety_stock       |-> Round(safety_stock, 2),
         service_level      |-> service_level,
         daily_demand       |-> Round(daily_demand, 2),
         demand_variability |-> Round(demand_variability, 3),
         lead_time_days     |-> lead_time_days,
         annual_holding_cost |-> Round(annual_holding_cost, 2),
         parameters |-> [z_score |-> z_score,
                         holding_cost_rate |-> holding_cost_rate]]

SafetyStockFromForecast(prods, sups, txs, t, product_id, forecast_result, service_level, demand_variability_arg) ==
    IF IsError(forecast_result) THEN CannotEstimate(forecast_result)
    ELSE SafetyStockResult(product_id, prods[product_id].unit_cost,
                           LeadTimeDays(prods, sups, product_id),
                           forecast_result.daily_average, service_level,
                           IF demand_variability_arg = None
                           THEN EstimatedVariability(txs, t, product_id)
                           ELSE demand_variability_arg[1],
                           ZScore(service_level))

calculate_safety_stock(prods, sups, txs, t, product_id, service_level, demand_variability_arg, lib) ==
    IF product_id \notin DOMAIN prods THEN Failure("Product not found")
    ELSE SafetyStockFromForecast(prods, sups, txs, t, product_id,
                                 generate_forecast(txs, t, product_id, 30, "auto", lib),
                                 service_level, demand_variability_arg)

\* The error of the first result that failed, alone.
FirstError(all) ==
    LET i == CHOOSE i \in DOMAIN all :
                 IsError(all[i]) /\ \A j \in 1..(i - 1) : ~IsError(all[j])
    IN  <<all[i].error>>

\* errors = [r.get("error") for r in [...] if "error" in r]
RECURSIVE Errors(_)
Errors(all) ==
    IF all = <<>> THEN <<>>
    ELSE (IF IsError(all[1]) THEN <<all[1].error>> ELSE <<>>) \o Errors(Tail(all))

\* The three results combined, or the errors of those that failed.
CombinedResult(product_id, eoq_result, reorder_result, safety_stock_result) ==
    LET all == <<eoq_result, reorder_result, safety_stock_result>>
    IN  IF \E i \in DOMAIN all : IsError(all[i])
        THEN [error |-> [message |-> "Optimization failed", errors |-> Errors(all)]]
        ELSE [product_id |-> product_id,
              optimization_results |->
                 [economic_order_quantity |-> eoq_result.eoq,
                  reorder_point |-> reorder_result.reorder_point,
                  safety_stock  |-> safety_stock_result.safety_stock,
                  recommended_max_stock |->
                      RAdd(eoq_result.eoq, safety_stock_result.safety_stock)],
              cost_analysis |->
                 [annual_ordering_cost |-> eoq_result.total_annual_cost,
                  annual_holding_cost  |-> safety_stock_result.annual_holding_cost,
                  total_annual_cost |->
                      RAdd(eoq_result.total_annual_cost,
                           safety_stock_result.annual_holding_cost)],
              service_metrics |->
                 [service_level  |-> reorder_result.service_level,
                  lead_time_days |-> reorder_result.lead_time_days,
                  orders_per_year |-> eoq_result.number_of_orders_per_year]]

optimize_inventory_levels(prods, sups, txs, t, product_id, lib) ==
    CombinedResult(product_id,
        calculate_eoq(prods, txs, t, product_id, None, I(50), <<1, 4>>, lib),
        calculate_reorder_point(prods, sups, txs, t, product_id, <<19, 20>>, lib),
        calculate_safety_stock(prods, sups, txs, t, product_id, <<19, 20>>, None, lib))

----------------------------------------------------------------------------
(* The store the services start from, and the requests *)

Shapes == {"flat", "down", "up"}

\* An initial history of product 1: n shipment dates, `stride` days apart,
\* the newest of today; the daily quantity is constant (1), falls by one per
\* date down to 1, or rises by one per date up from 1.  Shipments are stored
\* with negative quantities.
SeedHistory(n, stride, shape) ==
    [i \in 1..n |->
        Row(1, "shipment",
            -(CASE shape = "flat" -> 1
                [] shape = "down" -> 1 + (n - i)
                [] shape = "up"   -> i),
            Today - stride * (n - i))]

SeedHistories ==
    {SeedHistory(n, stride, shape) :
        n \in 0..MaxSeedDays, stride \in {1, MaxStride}, shape \in Shapes}

\* The rows a movement may add: a shipment (negative) or a receipt (positive)
\* of either product.
NewRows(t) ==
    {Row(p, "shipment", -2, t) : p \in ProductIds}
        \cup {Row(p, "receipt", 3, t) : p \in ProductIds}

\* _update_inventory_from_transaction: the quantity (negative for a
\* shipment) is added to the quantity on hand, and the available quantity is
\* recomputed.
update_inventory_from_transaction(inv, row) ==
    LET quantity_on_hand == inv[row.product_id].quantity_on_hand + row.quantity
        reserved_quantity == inv[row.product_id].reserved_quantity
    IN  [inv EXCEPT ![row.product_id] =
            [quantity_on_hand   |-> quantity_on_hand,
             reserved_quantity  |-> reserved_quantity,
             available_quantity |-> quantity_on_hand - reserved_quantity]]

\* The stock levels after the movements of a history, from empty records.
RECURSIVE InventoryAfter(_)
InventoryAfter(txs) ==
    IF txs = <<>>
    THEN [p \in ProductIds |->
            [quantity_on_hand |-> 0, reserved_quantity |-> 0, available_quantity |-> 0]]
    ELSE update_inventory_from_transaction(
             InventoryAfter(SubSeq(txs, 1, Len(txs) - 1)), txs[Len(txs)])

NoCall == [op |-> "none"]

NoResult == [none |-> TRUE]

Horizons == 1..MaxHorizon

DirectWindows == {7, 14}

\* horizon: int = 7
DefaultHorizon == 7

NoLib == [trend_fit_raises |-> FALSE, simple_fit_raises |-> FALSE]

\* The outcomes open to a request for the product: the statsmodels fits are
\* run (by exponential_smoothing_forecast) when the 90-day history has at
\* least 14 dates, and not otherwise.
Library(uses_es, product_id) ==
    IF uses_es /\ Len(get_historical_demand(transactions, now, product_id, 90)) >= 14
    THEN LibOutcomes
    ELSE {NoLib}

\* The catalogue: two suppliers, of 3 and of 14 days lead time; product 1
\* bought from either or from none, product 2 from none.
Suppliers == [s \in {1, 2} |-> [lead_time_days |-> IF s = 1 THEN 3 ELSE 14]]

Catalog(supplier_id) ==
    [p \in ProductIds |->
        [unit_cost |-> I(20), supplier_id |-> IF p = 1 THEN supplier_id ELSE 0]]

ProductCatalogs == {Catalog(s) : s \in {0} \cup DOMAIN Suppliers}

\* A history of product 1 that settles: n consecutive days up to today, the
\* last w of k units each, the days before them of five.
StepHistory(n, w, k) ==
    [i \in 1..n |->
        Row(1, "shipment", IF i <= n - w THEN -5 ELSE -k, Today - (n - i))]

StepHistories ==
    {StepHistory(w + more, w, k) : more \in {0, 1}, w \in {7, 14}, k \in {2, 10}}

\* A history of product 1 with days without a shipment: k units on each of
\* the last ten days but the fifth and the sixth before today.
GapHistory(k) ==
    LET days == SortedDates(((Today - 9)..Today) \ {Today - 5, Today - 4})
    IN  [i \in DOMAIN days |-> Row(1, "shipment", -k, days[i])]

GapHistories == {GapHistory(7)}

Init ==
    /\ products = Catalog(0)
    /\ suppliers = Suppliers
    /\ transactions \in SeedHistories \cup StepHistories \cup GapHistories
    /\ inventory = InventoryAfter(transactions)
    /\ forecasts = <<>>
    /\ recorded = 0
    /\ now = Today
    /\ phase = "idle"
    /\ call = NoCall
    /\ result = NoResult
    /\ calls = <<>>

\* TransactionService.create_transaction: a processed movement is written to
\* the transactions table, time-stamped now, and the stock level follows it.
RecordTransaction ==
    /\ phase = "idle"
    /\ recorded < MaxNew
    /\ \E row \in NewRows(now) :
          /\ transactions' = Append(transactions, row)
          /\ inventory' = update_inventory_from_transaction(inventory, row)
    /\ recorded' = recorded + 1
    /\ UNCHANGED <<products, suppliers, forecasts, now, phase, call, result, calls>>

\* ForecastResult(product_id, forecast_horizon_days, predicted_demand,
\* model_used, model_parameters) of a forecast that was returned
ForecastResultRow(forecast_data) ==
    [product_id            |-> forecast_data.product_id,
     forecast_horizon_days |-> forecast_data.horizon_days,
     predicted_demand      |-> forecast_data.total_forecast,
     model_used            |-> forecast_data.forecast_method,
     model_parameters      |-> forecast_data.parameters]

\* A generate_forecast that stores the forecast it computed.
GenerateForecastSaving ==
    /\ phase = "idle"
    /\ \E p \in ProductIds, h \in Horizons, m \in Methods :
       \E lib \in Library(m \in {"exponential_smoothing", "auto"}, p) :
          /\ call' = [op |-> "generate_forecast", product_id |-> p,
                      horizon |-> h, method |-> m, lib |-> lib]
          /\ result' = generate_forecast(transactions, now, p, h, m, lib)
          /\ calls' = generate_forecast_calls(transactions, now, p, h, m, lib)
          /\ forecasts' = IF IsError(result') THEN forecasts
                          ELSE Append(forecasts, ForecastResultRow(result'))
    /\ phase' = "done"
    /\ UNCHANGED <<products, suppliers, inventory, transactions, recorded, now>>

\* ForecastingService.generate_forecast(product_id, horizon, method)
GenerateForecast ==
    /\ phase = "idle"
    /\ \E p \in ProductIds, h \in Horizons, m \in Methods :
       \E lib \in Library(m \in {"exponential_smoothing", "auto"}, p) :
          /\ call' = [op |-> "generate_forecast", product_id |-> p,
                      horizon |-> h, method |-> m, lib |-> lib]
          /\ result' = generate_forecast(transactions, now, p, h, m, lib)
          /\ calls' = generate_forecast_calls(transactions, now, p, h, m, lib)
    /\ phase' = "done"
    /\ UNCHANGED <<products, suppliers, inventory, transactions, forecasts, recorded, now>>

\* ForecastingService.moving_average_forecast(product_id, horizon, window)
MovingAverageForecast ==
    /\ phase = "idle"
    /\ \E p \in ProductIds, h \in Horizons \cup {DefaultHorizon}, w \in DirectWindows :
          /\ call' = [op |-> "moving_average_forecast", product_id |-> p,
                      horizon |-> h, window |-> w]
          /\ result' = moving_average_forecast(transactions, now, p, h, w)
          /\ calls' = <<Invocation("moving_average", result')>>
    /\ phase' = "done"
    /\ UNCHANGED <<products, suppliers, inventory, transactions, forecasts, recorded, now>>

\* The caller takes the returned value; the service keeps nothing.
Return ==
    /\ phase = "done"
    /\ phase' = "idle"
    /\ call' = NoCall
    /\ result' = NoResult
    /\ calls' = <<>>
    /\ UNCHANGED <<products, suppliers, inventory, transactions, forecasts, recorded, now>>

NextForecast == RecordTransaction \/ GenerateForecast \/ MovingAverageForecast \/ Return

SpecForecast == Init /\ [][NextForecast]_vars

----------------------------------------------------------------------------
(* Requests to the optimisation service *)

\* product ids asked for: the products of the catalogue and an unknown id
RequestedProducts == ProductIds \cup {3}

AnnualDemands == {None, Some(I(1000)), Some(I(2000)), Some(I(0))}

\* ordering_cost: the default of 50.0 and its double
OrderingCosts == {I(50), I(100)}

\* service_level: the three levels of the z-score table, and one above them
\* that the table does not list
ServiceLevels == {<<9, 10>>, <<19, 20>>, <<99, 100>>, <<999, 1000>>}

DemandVariabilities == {None, Some(<<1, 2>>)}

\* The forecasting methods an optimisation request invokes through
\* generate_forecast(product_id, horizon), when it gets that far.
ForecastCalls(product_id, horizon, lib) ==
    IF product_id \in DOMAIN products
    THEN generate_forecast_calls(transactions, now, product_id, horizon, "auto", lib)
    ELSE <<>>

\* The histories the optimisation requests start from: none, the least that
\* a forecast accepts, and the longest.
OptimHistories ==
    {h \in SeedHistories : Len(h) \in {0, 7, MaxSeedDays}}

InitOptim ==
    /\ products \in ProductCatalogs
    /\ suppliers = Suppliers
    /\ transactions \in OptimHistories
    /\ inventory = InventoryAfter(transactions)
    /\ forecasts = <<>>
    /\ recorded = 0
    /\ now = Today
    /\ phase = "idle"
    /\ call = NoCall
    /\ result = NoResult
    /\ calls = <<>>

\* OptimizationService.calculate_eoq(product_id, annual_demand, ordering_cost)
CalculateEoq ==
    /\ phase = "idle"
    /\ \E p \in RequestedProducts, d \in AnnualDemands, oc \in OrderingCosts :
       \E lib \in Library(d = None, p) :
          /\ call' = [op |-> "calculate_eoq", product_id |-> p,
                      annual_demand |-> d, ordering_cost |-> oc, lib |-> lib]
          /\ result' = calculate_eoq(products, transactions, now, p, d,
                                     oc, <<1, 4>>, lib)
          /\ calls' = IF d = None THEN ForecastCalls(p, 90, lib) ELSE <<>>
    /\ phase' = "done"
    /\ UNCHANGED <<products, suppliers, inventory, transactions, forecasts, recorded, now>>

\* OptimizationService.calculate_reorder_point(product_id, service_level)
CalculateReorderPoint ==
    /\ phase = "idle"
    /\ \E p \in RequestedProducts, sl \in ServiceLevels :
       \E lib \in Library(TRUE, p) :
          /\ call' = [op |-> "calculate_reorder_point", product_id |-> p,
                      service_level |-> sl, lib |-> lib]
          /\ result' = calculate_reorder_point(products, suppliers, transactions,
                                               now, p, sl, lib)
          /\ calls' = ForecastCalls(p, 30, lib)
    /\ phase' = "done"
    /\ UNCHANGED <<products, suppliers, inventory, transactions, forecasts, recorded, now>>

\* OptimizationService.calculate_safety_stock(product_id, service_level,
\* demand_variability)
CalculateSafetyStock ==
    /\ phase = "idle"
    /\ \E p \in RequestedProducts, sl \in ServiceLevels, dv \in DemandVariabilities :
       \E lib \in Library(TRUE, p) :
          /\ call' = [op |-> "calculate_safety_stock", product_id |-> p,
                      service_level |-> sl, demand_variability |-> dv, lib |-> lib]
          /\ result' = calculate_safety_stock(products, suppliers, transactions,
                                              now, p, sl, dv, lib)
          /\ calls' = ForecastCalls(p, 30, lib)
    /\ phase' = "done"
    /\ UNCHANGED <<products, suppliers, inventory, transactions, forecasts, recorded, now>>

\* OptimizationService.optimize_inventory_levels(product_id)
OptimizeInventoryLevels ==
    /\ phase = "idle"
    /\ \E p \in RequestedProducts :
       \E lib \in Library(TRUE, p) :
          /\ call' = [op |-> "optimize_inventory_levels", product_id |-> p, lib |-> lib]
          /\ result' = optimize_inventory_levels(products, suppliers, transactions,
                                                 now, p, lib)
          /\ calls' = LET thirty == ForecastCalls(p, 30, lib)
                       IN  ForecastCalls(p, 90, lib) \o thirty \o thirty
    /\ phase' = "done"
    /\ UNCHANGED <<products, suppliers, inventory, transactions, forecasts, recorded, now>>

NextOptim ==
    \/ RecordTransaction
    \/ CalculateEoq
    \/ CalculateReorderPoint
    \/ CalculateSafetyStock
    \/ OptimizeInventoryLevels
    \/ Return

SpecOptim == InitOptim /\ [][NextOptim]_vars

----------------------------------------------------------------------------
(* Recommendations over the catalogue (get_optimization_recommendations) *)

\* Product.reorder_point when none is given
DefaultReorderPoint == 10

\* A classification that takes a stock equal to the threshold as above it.
PriorityBelow(current_stock, reorder_point) ==
    IF current_stock < reorder_point THEN "HIGH"
    ELSE IF 2 * current_stock < 3 * reorder_point THEN "MEDIUM"
    ELSE "LOW"

\* if current_stock <= reorder_point: HIGH
\* elif current_stock <= reorder_point * 1.5: MEDIUM   else: LOW
Priority(current_stock, reorder_point) ==
    IF current_stock <= reorder_point THEN "HIGH"
    ELSE IF 2 * current_stock <= 3 * reorder_point THEN "MEDIUM"
    ELSE "LOW"

RecommendationOf(priority) ==
    CASE priority = "HIGH"   -> "REORDER_NOW"
      [] priority = "MEDIUM" -> "MONITOR_CLOSELY"
      [] OTHER               -> "ADEQUATE_STOCK"

\* priority_order.get(x["priority"], 3)
priority_order(priority) ==
    CASE priority = "HIGH"   -> 0
      [] priority = "MEDIUM" -> 1
      [] priority = "LOW"    -> 2
      [] OTHER               -> 3

\* The entry of one row of the query, or None when its EOQ has an error.
\* eoq_result carries no daily_demand, so estimated_days_of_stock is None.
RecommendationFor(product_id, product, stock, eoq_result) ==
    IF IsError(eoq_result) THEN None
    ELSE Some([product_id     |-> product_id,
               current_stock  |-> stock.quantity_on_hand,
               reorder_point  |-> product.reorder_point,
               recommended_order_qty |-> Round(eoq_result.eoq, 0),
               recommendation |-> RecommendationOf(
                   Priority(stock.quantity_on_hand, product.reorder_point)),
               priority       |-> Priority(stock.quantity_on_hand, product.reorder_point),
               estimated_days_of_stock |-> None])

\* A batch that ends at the first row without an entry.
RECURSIVE AppendedUntilFailure(_)
AppendedUntilFailure(rows) ==
    IF rows = <<>> \/ rows[1] = None THEN <<>>
    ELSE <<rows[1][1]>> \o AppendedUntilFailure(Tail(rows))

\* results.append(...) for the rows that have an entry, in the order of the
\* query
RECURSIVE Appended(_)
Appended(rows) ==
    IF rows = <<>> THEN <<>>
    ELSE (IF rows[1] = None THEN <<>> ELSE <<rows[1][1]>>) \o Appended(Tail(rows))

\* A list left in the order of the query.
Unsorted(results) == results

\* item put behind the last entry of `sorted` whose key is not greater
InsertByPriority(sorted, item) ==
    LET behind == {k \in DOMAIN sorted :
                      priority_order(sorted[k].priority) <= priority_order(item.priority)}
        n == Cardinality(behind)
    IN  SubSeq(sorted, 1, n) \o <<item>> \o SubSeq(sorted, n + 1, Len(sorted))

\* results.sort(key=...): ascending by key; Python's sort is stable.
RECURSIVE SortedByPriority(_)
SortedByPriority(results) ==
    IF results = <<>> THEN <<>>
    ELSE InsertByPriority(SortedByPriority(SubSeq(results, 1, Len(results) - 1)),
                          results[Len(results)])

\* get_optimization_recommendations(): `query` is the order in which the join
\* of products and stock records yields the products.
get_optimization_recommendations(prods, inv, txs, t, query, lib) ==
    SortedByPriority(Appended(Listed(
        [k \in DOMAIN query |->
            RecommendationFor(query[k], prods[query[k]], inv[query[k]],
                calculate_eoq(prods, txs, t, query[k], None, I(50), <<1, 4>>, lib))])))

\* The catalogue of the recommendations: three products, bought from no
\* supplier, with the default reorder point.
ListedProducts == {1, 2, 3}

RecCatalog ==
    [p \in ListedProducts |->
        [unit_cost |-> I(20), supplier_id |-> 0, reorder_point |-> DefaultReorderPoint]]

\* Stock on hand at the reorder point, at one and a half times the reorder
\* point, and on either side of the two.
StockLevels ==
    {DefaultReorderPoint \div 2, DefaultReorderPoint,
     (3 * DefaultReorderPoint) \div 2, (3 * DefaultReorderPoint) \div 2 + 1}

StockRecord(q) ==
    [quantity_on_hand |-> q, reserved_quantity |-> 0, available_quantity |-> q]

\* The stock records: products 1 and 2 at any of the levels, product 3 above
\* one and a half times its reorder point.
StockTables ==
    {[p \in ListedProducts |->
         StockRecord(IF p = 3 THEN (3 * DefaultReorderPoint) \div 2 + 1 ELSE q[p])] :
        q \in [{1, 2} -> StockLevels]}

\* The history of one product: none, a week of daily shipments of one unit,
\* or the longest falling history.
HistoryOf(p, kind) ==
    LET seed == CASE kind = "none" -> <<>>
                  [] kind = "flat" -> SeedHistory(7, 1, "flat")
                  [] OTHER         -> SeedHistory(MaxSeedDays, 1, "down")
    IN  [i \in DOMAIN seed |-> [seed[i] EXCEPT !.product_id = p]]

RecHistories ==
    {HistoryOf(1, k1) \o HistoryOf(2, k2) \o HistoryOf(3, "flat") :
        k1 \in {"flat", "down"}, k2 \in {"none", "flat"}}

QueryOrders == {<<1, 2, 3>>, <<3, 2, 1>>}

InitRecommend ==
    /\ products = RecCatalog
    /\ suppliers = Suppliers
    /\ transactions \in RecHistories
    /\ inventory \in StockTables
    /\ forecasts = <<>>
    /\ recorded = 0
    /\ now = Today
    /\ phase = "idle"
    /\ call = NoCall
    /\ result = NoResult
    /\ calls = <<>>

\* The forecasting methods invoked for the rows of the query, in order.
RECURSIVE QueryForecastCalls(_, _)
QueryForecastCalls(query, lib) ==
    IF query = <<>> THEN <<>>
    ELSE ForecastCalls(query[1], 90, lib) \o QueryForecastCalls(Tail(query), lib)

\* OptimizationService.get_optimization_recommendations()
GetOptimizationRecommendations ==
    /\ phase = "idle"
    /\ \E query \in QueryOrders :
       \E lib \in Library(TRUE, 1) :
          /\ call' = [op |-> "get_optimization_recommendations",
                      query |-> query, lib |-> lib]
          /\ result' = get_optimization_recommendations(products, inventory,
                           transactions, now, query, lib)
          /\ calls' = QueryForecastCalls(query, lib)
    /\ phase' = "done"
    /\ UNCHANGED <<products, suppliers, inventory, transactions, forecasts, recorded, now>>

NextRecommend == RecordTransaction \/ GetOptimizationRecommendations \/ Return

SpecRecommend == InitRecommend /\ [][NextRecommend]_vars

----------------------------------------------------------------------------
(* Demand history, seasonality and simulated operations *)

\* the least number of dates get_seasonal_patterns accepts
SeasonalMinimum == 30

\* the threshold of the coefficient of variation, 0.2
SeasonalThreshold == <<1, 5>>

\* Timestamp.dayofweek, day 0 taken to be a Monday
DayOfWeek(date) == date % 7

\* df.groupby('day_of_week')['demand'].mean() of the series that starts on
\* the date `first`: the weekdays that occur, each with its mean
DayAverages(series, first) ==
    LET on(w) == {k \in DOMAIN series : DayOfWeek(first + k - 1) = w}
        present == {w \in 0..6 : on(w) # {}}
    IN  [w \in present |->
            Norm(ISum(Listed([i \in 1..Len(series) |->
                                IF i \in on(w) THEN series[i] ELSE 0])),
                 Cardinality(on(w)))]

\* the values of day_avg as a list
AverageList(day_avg) ==
    LET days == SortedDates(DOMAIN day_avg)
    IN  Listed([k \in DOMAIN days |-> day_avg[days[k]]])

\* mean and variance (ddof = 1) of a list of numbers, as <<mean, variance>>
MeanAndVariance(values) ==
    LET n == Len(values)
        mean == RDiv(RSum(values), I(n))
        squares == Listed([k \in DOMAIN values |->
                              RMul(RSub(values[k], mean), RSub(values[k], mean))])
    IN  <<mean, IF n > 1 THEN RDiv(RSum(squares), I(n - 1)) ELSE I(0)>>

\* The seasonal analysis of the daily series.
\* cv = day_avg.std() / day_avg.mean() if day_avg.mean() > 0 else 0;
\* seasonal_detected = cv > 0.2, decided on the squares
SeasonalResult(product_id, day_avg, stats, data_points) ==
    LET mean == stats[1]
        variance == stats[2]
        cv == IF RSign(mean) > 0 THEN FDiv(Sqrt(variance), mean) ELSE I(0)
    IN  [product_id |-> product_id,
         seasonal_detected |->
             (RSign(mean) > 0
                /\ RLt(RMul(RMul(SeasonalThreshold, SeasonalThreshold), RMul(mean, mean)),
                       variance)),
         day_of_week_pattern |->
             [w \in 0..6 |-> IF w \in DOMAIN day_avg THEN day_avg[w] ELSE I(0)],
         coefficient_of_variation |-> cv,
         data_points |-> data_points]

SeasonalOfAverages(product_id, day_avg, data_points) ==
    SeasonalResult(product_id, day_avg, MeanAndVariance(AverageList(day_avg)), data_points)

SeasonalOfSeries(product_id, series, first) ==
    IF Len(series) < SeasonalMinimum
    THEN [seasonal_detected |-> FALSE, reason |-> "Insufficient continuous data"]
    ELSE SeasonalOfAverages(product_id, DayAverages(series, first), Len(series))

SeasonalOfHistory(product_id, df) ==
    IF Len(df) < SeasonalMinimum
    THEN InsufficientData("Insufficient data for seasonal analysis. Need at least 30 days.",
                          SeasonalMinimum)
    ELSE SeasonalOfSeries(product_id, asfreq(df), df[1].date)

get_seasonal_patterns(txs, t, product_id) ==
    SeasonalOfHistory(product_id, get_historical_demand(txs, t, product_id, 365))

\* A history of product 1 long enough for the seasonal analysis: n
\* consecutive days up to today, one unit a day, or five units on Mondays.
SeasonShapes == {"flat", "weekly"}

SeasonHistory(n, shape) ==
    [i \in 1..n |->
        Row(1, "shipment",
            IF shape = "weekly" /\ DayOfWeek(Today - (n - i)) = 0 THEN -5 ELSE -1,
            Today - (n - i))]

\* The histories the reads start from: none, a week, the longest seeded one,
\* and one day less than, and exactly, what the seasonal analysis needs.
DemandHistories ==
    {h \in SeedHistories : Len(h) \in {0, 7, MaxSeedDays}}
        \cup {SeasonHistory(n, shape) :
                 n \in {SeasonalMinimum - 1, SeasonalMinimum}, shape \in SeasonShapes}

\* the windows asked for: a fortnight and the 90 days of the forecasts
DemandWindows == {14, 90}

MaxSimDays == 2       \* days a simulation run covers: 1..MaxSimDays

\* The movement of a simulated day (one stands for the 10 to 30 the
\* simulation draws): a shipment or an adjustment of product 1.
SimRows(t) == {Row(1, "shipment", -1, t), Row(1, "adjustment", -10, t)}

\* The rows of a run of `days` days that starts now: one per day, the day-th
\* time-stamped now + day, day = 0 .. days - 1.
RECURSIVE SimRuns(_, _)
SimRuns(t, days) ==
    IF days = 0 THEN {<<>>}
    ELSE {run \o <<row>> : run \in SimRuns(t, days - 1), row \in SimRows(t + days - 1)}

\* inventory.quantity_on_hand += quantity, for each row of the run
RECURSIVE InventoryAfterRun(_, _)
InventoryAfterRun(inv, run) ==
    IF run = <<>> THEN inv
    ELSE InventoryAfterRun(update_inventory_from_transaction(inv, run[1]), Tail(run))

InitDemand ==
    /\ products = Catalog(0)
    /\ suppliers = Suppliers
    /\ transactions \in DemandHistories
    /\ inventory = InventoryAfter(transactions)
    /\ forecasts = <<>>
    /\ recorded = 0
    /\ now = Today
    /\ phase = "idle"
    /\ call = NoCall
    /\ result = NoResult
    /\ calls = <<>>

\* SimulationService.simulate_daily_operations(days)
SimulateDailyOperations ==
    /\ phase = "idle"
    /\ recorded < MaxNew
    /\ \E days \in 1..MaxSimDays :
       \E run \in SimRuns(now, days) :
          /\ transactions' = transactions \o run
          /\ inventory' = InventoryAfterRun(inventory, run)
    /\ recorded' = recorded + 1
    /\ UNCHANGED <<products, suppliers, forecasts, now, phase, call, result, calls>>

\* ForecastingService.get_historical_demand(product_id, days)
GetHistoricalDemand ==
    /\ phase = "idle"
    /\ \E p \in RequestedProducts, days \in DemandWindows :
          /\ call' = [op |-> "get_historical_demand", product_id |-> p, days |-> days]
          /\ result' = get_historical_demand(transactions, now, p, days)
    /\ calls' = <<>>
    /\ phase' = "done"
    /\ UNCHANGED <<products, suppliers, inventory, transactions, forecasts, recorded, now>>

\* ForecastingService.get_seasonal_patterns(product_id)
GetSeasonalPatterns ==
    /\ phase = "idle"
    /\ \E p \in ProductIds :
          /\ call' = [op |-> "get_seasonal_patterns", product_id |-> p]
          /\ result' = get_seasonal_patterns(transactions, now, p)
    /\ calls' = <<>>
    /\ phase' = "done"
    /\ UNCHANGED <<products, suppliers, inventory, transactions, forecasts, recorded, now>>

NextDemand ==
    \/ RecordTransaction
    \/ SimulateDailyOperations
    \/ GetHistoricalDemand
    \/ GetSeasonalPatterns
    \/ Return

SpecDemand == InitDemand /\ [][NextDemand]_vars

----------------------------------------------------------------------------
(* Properties of the forecasting service (specification SpecForecast) *)

ForecastRequests == {"generate_forecast", "moving_average_forecast"}

\* A request to the forecasting service has returned.
ForecastDone == phase = "done" /\ call.op \in ForecastRequests

\* generate_forecast(product_id, horizon, method) has returned.
Generated(method) ==
    phase = "done" /\ call.op = "generate_forecast" /\ call.method = method

\* number of dates in the history the request read over the last `days` days
HistoryDays(days) ==
    Len(get_historical_demand(transactions, now, call.product_id, days))

\* daily_average == total_forecast / h; a series, if any, has h values that
\* sum to total_forecast
ForecastConsistent(r, h) ==
    /\ r.daily_average = RDiv(r.total_forecast, I(h))
    /\ "forecast_series" \in DOMAIN r =>
          /\ Len(r.forecast_series) = h
          /\ RSum(r.forecast_series) = r.total_forecast

\* C1: every successful forecast of the three methods, for horizon h, has
\* daily_average equal to total_forecast / h, and a per-day series, when one
\* is returned, of h values whose sum is total_forecast.
C1_DailyAverageAndSeries ==
    ForecastDone =>
        \A i \in DOMAIN calls :
            ~IsError(calls[i].ret) => ForecastConsistent(calls[i].ret, call.horizon)

\* C1 happens: exponential smoothing returned a series that is not constant,
\* for the longest horizon.
C1_Witness ==
    /\ Generated("exponential_smoothing")
    /\ ~IsError(result)
    /\ call.horizon = MaxHorizon
    /\ result.forecast_series[1] # result.forecast_series[MaxHorizon]

\* C2: no value of the per-day series of trend_analysis_forecast is negative,
\* and total_forecast and daily_average are those of the clamped series.
C2_TrendSeriesClamped ==
    ForecastDone =>
        \A i \in DOMAIN calls :
            (calls[i].op = "trend_analysis" /\ ~IsError(calls[i].ret)) =>
                LET r == calls[i].ret
                IN  /\ \A k \in DOMAIN r.forecast_series :
                           RSign(r.forecast_series[k]) >= 0
                    /\ r.total_forecast = RSum(r.forecast_series)
                    /\ r.daily_average = RDiv(r.total_forecast, I(call.horizon))
                    /\ RSign(r.total_forecast) >= 0

\* C2 happens: the fitted line falls and lies below zero at the end of the
\* horizon, where the series reports zero.
C2_Witness ==
    /\ Generated("trend_analysis")
    /\ ~IsError(result)
    /\ RSign(result.parameters.slope) < 0
    /\ RSign(RAdd(RMul(result.parameters.slope,
                       I(result.data_points + call.horizon - 1)),
                  result.parameters.intercept)) < 0
    /\ result.forecast_series[call.horizon] = I(0)

\* C3: every successful forecast, whichever method produced it, has
\* total_forecast >= 0 and daily_average >= 0.
C3_ForecastNonNegative ==
    ForecastDone =>
        \A i \in DOMAIN calls :
            ~IsError(calls[i].ret) =>
                /\ RSign(calls[i].ret.total_forecast) >= 0
                /\ RSign(calls[i].ret.daily_average) >= 0

\* C4: generate_forecast(method = "auto") on 7 to 13 days of demand data
\* returns a moving-average forecast with window min(7, days).
C4_AutoShortHistory ==
    (Generated("auto") /\ HistoryDays(90) \in 7..13) =>
        /\ ~IsError(result)
        /\ result.forecast_method = "moving_average"
        /\ result.parameters.window = Min(7, HistoryDays(90))

\* C5: generate_forecast(method = "auto") on at least 14 days of data invokes
\* exponential smoothing first and returns its result when it succeeds; the
\* moving average is invoked only directly after exponential smoothing
\* returned an error.
C5_AutoTriesSmoothingFirst ==
    (Generated("auto") /\ HistoryDays(90) >= 14) =>
        /\ calls # <<>>
        /\ calls[1].op = "exponential_smoothing"
        /\ ~IsError(calls[1].ret) => (calls = <<calls[1]>> /\ result = calls[1].ret)
        /\ \A i \in DOMAIN calls :
              calls[i].op = "moving_average" =>
                  /\ i > 1
                  /\ calls[i - 1].op = "exponential_smoothing"
                  /\ IsError(calls[i - 1].ret)
        /\ result = calls[Len(calls)].ret

\* C5 happens: exponential smoothing failed on 14 days or more and the moving
\* average was invoked after it.
C5_Witness ==
    /\ Generated("auto")
    /\ HistoryDays(90) >= 14
    /\ Len(calls) = 2
    /\ IsError(calls[1].ret)
    /\ calls[2].op = "moving_average"
    /\ ~IsError(result)

\* The result is an error, it names the minimum n, and nothing else is returned.
Rejected(r, n) == DOMAIN r = {"error"} /\ r.error.need = n

ExplicitMethods == {"moving_average", "exponential_smoothing", "trend_analysis"}

\* C7: generate_forecast with an explicit method returns an error or a
\* forecast of that method, and invokes no other method.
C7_ExplicitMethodOnly ==
    (phase = "done" /\ call.op = "generate_forecast" /\ call.method \in ExplicitMethods) =>
        /\ IsError(result) \/ result.forecast_method = call.method
        /\ \A i \in DOMAIN calls : calls[i].op = call.method

\* C7 happens: the requested exponential smoothing failed on a history from
\* which the moving average would have produced a forecast.
C7_Witness ==
    /\ Generated("exponential_smoothing")
    /\ IsError(result)
    /\ ~IsError(moving_average_forecast(transactions, now, call.product_id,
                                        call.horizon, 14))

----------------------------------------------------------------------------
(* Properties of the optimisation service (specification SpecOptim) *)

\* A request of the given kind has returned a result that is not an error.
Succeeded(op) == phase = "done" /\ call.op = op /\ ~IsError(result)

RAbs(x) == <<Abs(x[1]), x[2]>>

\* C8: in a result of optimize_inventory_levels, reorder_point equals
\* lead_time_demand (forecast daily demand times lead_time_days) plus the
\* safety_stock of the same result; two cents are allowed for the rounding
\* of the two reported values.
C8_ReorderPointIdentity ==
    Succeeded("optimize_inventory_levels") =>
        LET r == result.optimization_results
            daily_demand ==
                generate_forecast(transactions, now, call.product_id, 30,
                                  "auto", call.lib).daily_average
            lead_time_demand ==
                RMul(daily_demand, I(result.service_metrics.lead_time_days))
        IN  RLe(RAbs(RSub(r.reorder_point, RAdd(lead_time_demand, r.safety_stock))),
                <<2, 100>>)

\* C9 as stated: the reported reorder_point is exactly the sum of the
\* reported lead_time_demand and the reported safety_stock.
C9_ReportedSumExact ==
    Succeeded("calculate_reorder_point") =>
        result.reorder_point = RAdd(result.lead_time_demand, result.safety_stock)

\* C9, amended: the reported reorder_point differs from the sum of the
\* reported lead_time_demand and the reported safety_stock by one cent at
\* most (each of the three is rounded to two decimals on its own).
C9_ReportedSumWithinCent ==
    Succeeded("calculate_reorder_point") =>
        RLe(RAbs(RSub(result.reorder_point,
                      RAdd(result.lead_time_demand, result.safety_stock))),
            <<1, 100>>)

\* C9 happens: a reorder point was returned whose three reported values are
\* one cent apart.
C9_Witness ==
    /\ Succeeded("calculate_reorder_point")
    /\ RSign(result.safety_stock) > 0
    /\ RAbs(RSub(result.reorder_point,
                 RAdd(result.lead_time_demand, result.safety_stock))) = <<1, 100>>

\* C10: the quantities of every successful result of calculate_eoq,
\* calculate_reorder_point, calculate_safety_stock and
\* optimize_inventory_levels are non-negative.
C10_QuantitiesNonNegative ==
    /\ Succeeded("calculate_eoq") =>
          /\ RSign(result.eoq) >= 0
          /\ RSign(result.total_annual_cost) >= 0
    /\ Succeeded("calculate_reorder_point") =>
          /\ RSign(result.reorder_point) >= 0
          /\ RSign(result.safety_stock) >= 0
    /\ Succeeded("calculate_safety_stock") =>
          /\ RSign(result.safety_stock) >= 0
          /\ RSign(result.annual_holding_cost) >= 0
    /\ Succeeded("optimize_inventory_levels") =>
          /\ RSign(result.optimization_results.economic_order_quantity) >= 0
          /\ RSign(result.optimization_results.reorder_point) >= 0
          /\ RSign(result.optimization_results.safety_stock) >= 0
          /\ RSign(result.optimization_results.recommended_max_stock) >= 0
          /\ RSign(result.cost_analysis.annual_ordering_cost) >= 0
          /\ RSign(result.cost_analysis.annual_holding_cost) >= 0
          /\ RSign(result.cost_analysis.total_annual_cost) >= 0

\* The forecast an optimisation request obtained last, when it asked for one.
LastForecast == calls[Len(calls)].ret

Requested(op) == phase = "done" /\ call.op = op /\ call.product_id \in DOMAIN products

\* The annual demand calculate_eoq works with, defined when the caller gave
\* one or the 90-day forecast succeeded.
EoqDemandKnown ==
    call.annual_demand # None \/ (calls # <<>> /\ ~IsError(LastForecast))

EoqDemand ==
    IF call.annual_demand # None THEN call.annual_demand[1]
    ELSE RMul(RDiv(LastForecast.total_forecast, I(90)), I(365))

\* C11: calculate_eoq fails with the invalid-demand error, and returns no
\* EOQ, whenever the annual demand (given by the caller or derived from the
\* 90-day forecast) is <= 0; calculate_reorder_point fails likewise whenever
\* the daily_average of the 30-day forecast is <= 0.
C11_InvalidDemandRejected ==
    /\ (Requested("calculate_eoq") /\ EoqDemandKnown /\ RSign(EoqDemand) <= 0)
          => result = Failure("Annual demand must be positive")
    /\ (Requested("calculate_reorder_point") /\ calls # <<>> /\ ~IsError(LastForecast)
            /\ RSign(LastForecast.daily_average) <= 0)
          => result = Failure("Daily demand must be positive")

\* C11 happens: an order quantity was refused for a demand derived from a
\* forecast that is negative.
C11_Witness ==
    /\ Requested("calculate_eoq")
    /\ call.annual_demand = None
    /\ calls # <<>> /\ ~IsError(LastForecast)
    /\ RSign(LastForecast.total_forecast) < 0
    /\ IsError(result)

\* r is the square root of x to the cent: (r - 0.01)^2 <= x <= (r + 0.01)^2
RootToTheCent(r, x) ==
    LET below == RSub(r, <<1, 100>>)
        above == RAdd(r, <<1, 100>>)
    IN  /\ RSign(below) >= 0
        /\ RLe(RMul(below, below), x)
        /\ RLe(x, RMul(above, above))

\* 2 * annual_demand * ordering_cost / (unit_cost * holding_cost_rate)
EoqRatio(annual_demand, ordering_cost, unit_cost, holding_cost_rate) ==
    RDiv(RMul(RMul(I(2), annual_demand), ordering_cost),
         RMul(unit_cost, holding_cost_rate))

\* the eoq of the same request with another ordering cost
EoqWithOrderingCost(ordering_cost) ==
    calculate_eoq(products, transactions, now, call.product_id,
                  call.annual_demand, ordering_cost, <<1, 4>>, call.lib).eoq

\* C16: for an annual demand given by the caller, the eoq returned is the
\* square root of 2 * annual_demand * ordering_cost / (unit_cost *
\* holding_cost_rate), to the cent it is reported in, and with the ordering
\* cost doubled the eoq returned is the square root of twice that ratio.
C16_EoqFormula ==
    (Succeeded("calculate_eoq") /\ call.annual_demand # None) =>
        LET ratio == EoqRatio(call.annual_demand[1], call.ordering_cost,
                              products[call.product_id].unit_cost, <<1, 4>>)
        IN  /\ RootToTheCent(result.eoq, ratio)
            /\ RootToTheCent(EoqWithOrderingCost(RMul(I(2), call.ordering_cost)),
                             RMul(I(2), ratio))

\* C16 happens: annual demand 1000, ordering cost 50, rate 0.25 and unit cost
\* 20 give a ratio of 20000 and an eoq of 141.42.
C16_Witness ==
    /\ Succeeded("calculate_eoq")
    /\ call.annual_demand = Some(I(1000))
    /\ call.ordering_cost = I(50)
    /\ EoqRatio(I(1000), I(50), products[call.product_id].unit_cost, <<1, 4>>) = I(20000)
    /\ result.eoq = <<7071, 50>>

\* The result r of optimize_inventory_levels against the results of the three
\* calculations it calls: an error that carries the error of every failed
\* calculation and nothing else, or the consolidated result.
Consolidates(r, eoq_result, reorder_result, safety_stock_result) ==
    LET all == <<eoq_result, reorder_result, safety_stock_result>>
        failed == {i \in DOMAIN all : IsError(all[i])}
    IN  IF failed # {}
        THEN /\ DOMAIN r = {"error"}
             /\ Len(r.error.errors) = Cardinality(failed)
             /\ \A i \in failed : \E k \in DOMAIN r.error.errors :
                   r.error.errors[k] = all[i].error
        ELSE /\ DOMAIN r = {"product_id", "optimization_results", "cost_analysis",
                            "service_metrics"}
             /\ r.optimization_results.economic_order_quantity = eoq_result.eoq
             /\ r.optimization_results.reorder_point = reorder_result.reorder_point
             /\ r.optimization_results.safety_stock = safety_stock_result.safety_stock
             /\ r.optimization_results.recommended_max_stock
                   = RAdd(eoq_result.eoq, safety_stock_result.safety_stock)

\* C15: optimize_inventory_levels returns an error that aggregates the
\* messages of every failed sub-calculation whenever calculate_eoq,
\* calculate_reorder_point or calculate_safety_stock fails, and otherwise the
\* consolidated result with recommended_max_stock = eoq + safety_stock; it
\* never returns part of a result.
C15_AllOrNothing ==
    (phase = "done" /\ call.op = "optimize_inventory_levels") =>
        Consolidates(result,
            calculate_eoq(products, transactions, now, call.product_id, None,
                          I(50), <<1, 4>>, call.lib),
            calculate_reorder_point(products, suppliers, transactions, now,
                                    call.product_id, <<19, 20>>, call.lib),
            calculate_safety_stock(products, suppliers, transactions, now,
                                   call.product_id, <<19, 20>>, None, call.lib))

\* C15 happens: two of the three calculations failed and the third did not,
\* and the two errors are returned.
C15_Witness ==
    /\ phase = "done" /\ call.op = "optimize_inventory_levels"
    /\ IsError(result)
    /\ Len(result.error.errors) = 2
    /\ ~IsError(calculate_safety_stock(products, suppliers, transactions, now,
                                       call.product_id, <<19, 20>>, None, call.lib))

----------------------------------------------------------------------------
(* Properties of the recommendations (specification SpecRecommend) *)

Recommended == phase = "done" /\ call.op = "get_optimization_recommendations"

Priorities == {"HIGH", "MEDIUM", "LOW"}

PositionIn(query, product_id) == CHOOSE k \in DOMAIN query : query[k] = product_id

\* C12: every listed product has exactly one priority, decided by its stock
\* on hand against its reorder point: HIGH (reorder now) iff the stock is at
\* or below the reorder point, MEDIUM (monitor closely) iff it is above the
\* reorder point and at or below one and a half times it, LOW (adequate)
\* otherwise.
C12_PriorityByStock ==
    Recommended =>
        \A i \in DOMAIN result :
            LET item == result[i]
                current_stock == inventory[item.product_id].quantity_on_hand
                reorder_point == products[item.product_id].reorder_point
            IN  /\ item.current_stock = current_stock
                /\ item.reorder_point = reorder_point
                /\ item.priority \in Priorities
                /\ item.priority = "HIGH" <=> current_stock <= reorder_point
                /\ item.priority = "MEDIUM" <=>
                      (reorder_point < current_stock
                         /\ 2 * current_stock <= 3 * reorder_point)
                /\ item.priority = "LOW" <=> 2 * current_stock > 3 * reorder_point
                /\ item.recommendation =
                      (CASE item.priority = "HIGH"   -> "REORDER_NOW"
                         [] item.priority = "MEDIUM" -> "MONITOR_CLOSELY"
                         [] OTHER                    -> "ADEQUATE_STOCK")

\* C12 happens: one list holds a product whose stock equals its reorder
\* point, one whose stock is exactly one and a half times its reorder point,
\* and one above that.
C12_Witness ==
    /\ Recommended
    /\ \E i, j, k \in DOMAIN result :
          /\ result[i].current_stock = result[i].reorder_point
          /\ result[i].priority = "HIGH"
          /\ 2 * result[j].current_stock = 3 * result[j].reorder_point
          /\ result[j].priority = "MEDIUM"
          /\ result[k].priority = "LOW"

\* C13: in the returned list every HIGH item precedes every MEDIUM item and
\* every MEDIUM item precedes every LOW item, and items of the same priority
\* stand in the order in which the query produced them.
C13_SortedStable ==
    Recommended =>
        \A i, j \in DOMAIN result :
            i < j =>
                /\ priority_order(result[i].priority) <= priority_order(result[j].priority)
                /\ result[i].priority = result[j].priority =>
                      PositionIn(call.query, result[i].product_id)
                          < PositionIn(call.query, result[j].product_id)

\* C13 happens: the query produced a LOW product first and two HIGH products
\* after it, and the list is returned.
C13_Witness ==
    /\ Recommended
    /\ Len(result) = 3
    /\ result[1].priority = "HIGH" /\ result[2].priority = "HIGH"
    /\ result[3].priority = "LOW"
    /\ PositionIn(call.query, result[3].product_id) = 1

\* the products of the query whose order quantity is calculated without error
EoqSucceeds(product_id) ==
    ~IsError(calculate_eoq(products, transactions, now, product_id, None,
                           I(50), <<1, 4>>, call.lib))

----------------------------------------------------------------------------
(* Properties of the demand history (specification SpecDemand) *)

DemandRead == phase = "done" /\ call.op = "get_historical_demand"

\* the shipment rows of the product the read asked for, by date
ShipmentsOn(date) ==
    {i \in DOMAIN transactions :
        /\ transactions[i].product_id = call.product_id
        /\ transactions[i].transaction_type = "shipment"
        /\ transactions[i].timestamp = date}

RECURSIVE TotalAbs(_)
TotalAbs(idx) ==
    IF idx = {} THEN 0
    ELSE LET i == CHOOSE i \in idx : TRUE
         IN  (IF transactions[i].quantity < 0 THEN -transactions[i].quantity
              ELSE transactions[i].quantity) + TotalAbs(idx \ {i})

\* C17: get_historical_demand returns one point per calendar date, from the
\* cutoff on, that has a shipment record of the product; the point's quantity
\* is the sum of the absolute quantities of that date's shipments of the
\* product, and is >= 0; dates increase strictly; records of other products
\* and of other types contribute nothing; without matching records the
\* series is empty and no error.
C17_DailyShipmentTotals ==
    DemandRead =>
        /\ DOMAIN result = 1..Len(result)
        /\ \A k \in DOMAIN result :
              /\ ShipmentsOn(result[k].date) # {}
              /\ result[k].demand = TotalAbs(ShipmentsOn(result[k].date))
              /\ result[k].demand >= 0
        /\ \A j, k \in DOMAIN result : j < k => result[j].date < result[k].date
        /\ \A i \in DOMAIN transactions :
              (/\ transactions[i].product_id = call.product_id
               /\ transactions[i].transaction_type = "shipment"
               /\ transactions[i].timestamp >= now - call.days)
                  => \E k \in DOMAIN result : result[k].date = transactions[i].timestamp

\* C17 happens: a date of the series has two shipments of the product, and
\* the table holds a row of another type for the product.
C17_Witness ==
    /\ DemandRead
    /\ Len(result) >= 2
    /\ \E k \in DOMAIN result : Cardinality(ShipmentsOn(result[k].date)) = 2
    /\ \E i \in DOMAIN transactions :
          /\ transactions[i].product_id = call.product_id
          /\ transactions[i].transaction_type # "shipment"

\* C18: every point of get_historical_demand(product_id, days) lies in the
\* window [now - days, now]: records older than the window and records
\* time-stamped in the future contribute nothing.
C18_OnlyWindowRecords ==
    DemandRead =>
        \A k \in DOMAIN result :
            /\ now - call.days <= result[k].date
            /\ result[k].date <= now

SeasonalRead == phase = "done" /\ call.op = "get_seasonal_patterns"

\* C19: get_seasonal_patterns on a product with fewer than 30 days of demand
\* data returns a result with seasonal_detected = false and a reason, not an
\* error.
C19_ShortHistoryNotAnError ==
    (SeasonalRead
       /\ Len(get_historical_demand(transactions, now, call.product_id, 365))
             < SeasonalMinimum)
        => /\ ~IsError(result)
           /\ result.seasonal_detected = FALSE
           /\ "reason" \in DOMAIN result

----------------------------------------------------------------------------
(* Moving average of a settled history (specification SpecForecast) *)

\* the history moving_average_forecast reads for the request
WindowHistory ==
    Demands(get_historical_demand(transactions, now, call.product_id, 2 * call.window))

\* the last `window` values of the history are all k
SettledAt(s, window, k) ==
    /\ Len(s) >= window
    /\ \A i \in (Len(s) - window + 1)..Len(s) : s[i] = k

\* C20: moving_average_forecast on a history whose most recent `window`
\* daily values all equal k returns daily_average = k and total_forecast =
\* k * horizon.
C20_SettledHistoryAverage ==
    (phase = "done" /\ call.op = "moving_average_forecast") =>
        \A k \in 0..20 :
            SettledAt(WindowHistory, call.window, k) =>
                /\ ~IsError(result)
                /\ result.daily_average = I(k)
                /\ result.total_forecast = I(k * call.horizon)

\* C20 happens: the last 14 days had a demand of 10 each, after a day of 5,
\* and the forecast over 7 days is 10 a day and 70 in all.
C20_Witness ==
    /\ phase = "done" /\ call.op = "moving_average_forecast"
    /\ call.window = 14 /\ call.horizon = 7
    /\ Len(WindowHistory) = 15
    /\ WindowHistory[1] = 5
    /\ SettledAt(WindowHistory, 14, 10)
    /\ result.daily_average = I(10)
    /\ result.total_forecast = I(70)

----------------------------------------------------------------------------
(* The services as readers of the store (specification SpecFrame) *)

\* save_forecast_result(forecast_data): the caller of generate_forecast (the
\* forecast endpoint) stores the forecast it was given, unless it is an error.
\* The first row of the forecast table is followed; further rows are not.
SaveForecastResult ==
    /\ phase = "done"
    /\ call.op = "generate_forecast"
    /\ ~IsError(result)
    /\ forecasts = <<>>
    /\ recorded < MaxNew
    /\ forecasts' = Append(forecasts, ForecastResultRow(result))
    /\ recorded' = recorded + 1
    /\ UNCHANGED <<products, suppliers, inventory, transactions, now,
                   phase, call, result, calls>>

\* The store the readers start from: the catalogue of three products with a
\* stock record each, and a history of each product.
InitFrame ==
    /\ products = RecCatalog
    /\ suppliers = Suppliers
    /\ transactions \in {h \in RecHistories : Len(h) = 7 + MaxSeedDays}
    /\ inventory = [p \in ListedProducts |-> StockRecord(DefaultReorderPoint)]
    /\ forecasts = <<>>
    /\ recorded = 0
    /\ now = Today
    /\ phase = "idle"
    /\ call = NoCall
    /\ result = NoResult
    /\ calls = <<>>

NextFrame ==
    \/ RecordTransaction
    \/ SaveForecastResult
    \/ GetHistoricalDemand
    \/ GenerateForecast
    \/ GetSeasonalPatterns
    \/ CalculateEoq
    \/ CalculateReorderPoint
    \/ CalculateSafetyStock
    \/ OptimizeInventoryLevels
    \/ GetOptimizationRecommendations
    \/ Return

SpecFrame == InitFrame /\ [][NextFrame]_vars

\* What the request c returns when it is served from the store as it is.
Recomputed(c) ==
    CASE c.op = "get_historical_demand" ->
            get_historical_demand(transactions, now, c.product_id, c.days)
      [] c.op = "generate_forecast" ->
            generate_forecast(transactions, now, c.product_id, c.horizon,
                              c.method, c.lib)
      [] c.op = "get_seasonal_patterns" ->
            get_seasonal_patterns(transactions, now, c.product_id)
      [] c.op = "calculate_eoq" ->
            calculate_eoq(products, transactions, now, c.product_id,
                          c.annual_demand, c.ordering_cost, <<1, 4>>, c.lib)
      [] c.op = "calculate_reorder_point" ->
            calculate_reorder_point(products, suppliers, transactions, now,
                                    c.product_id, c.service_level, c.lib)
      [] c.op = "calculate_safety_stock" ->
            calculate_safety_stock(products, suppliers, transactions, now,
                                   c.product_id, c.service_level,
                                   c.demand_variability, c.lib)
      [] c.op = "optimize_inventory_levels" ->
            optimize_inventory_levels(products, suppliers, transactions, now,
                                      c.product_id, c.lib)
      [] c.op = "get_optimization_recommendations" ->
            get_optimization_recommendations(products, inventory, transactions,
                                             now, c.query, c.lib)

ReaderOperations ==
    {"get_historical_demand", "generate_forecast", "get_seasonal_patterns",
     "calculate_eoq", "calculate_reorder_point", "calculate_safety_stock",
     "optimize_inventory_levels", "get_optimization_recommendations"}

\* C21: a request to get_historical_demand, generate_forecast (any method),
\* get_seasonal_patterns, calculate_eoq, calculate_reorder_point,
\* calculate_safety_stock, optimize_inventory_levels or
\* get_optimization_recommendations leaves the product, supplier, inventory,
\* transaction and forecast tables as they were, whether it returns a value
\* or an error, and what it returns is determined by the store and its
\* arguments alone, whatever was requested before.
C21_ReadersLeaveStoreUnchanged ==
    [][(phase = "idle" /\ phase' = "done") =>
          /\ call'.op \in ReaderOperations
          /\ UNCHANGED <<products, suppliers, inventory, transactions, forecasts>>
          /\ result' = Recomputed(call')]_vars

\* C21 happens: after a shipment was recorded and an earlier request was
\* served, generate_forecast returned a forecast and the forecast table is
\* still empty.
C21_Witness ==
    /\ phase = "done"
    /\ call.op = "generate_forecast"
    /\ ~IsError(result)
    /\ recorded = MaxNew
    /\ Len(transactions) > 7 + MaxSeedDays
    /\ forecasts = <<>>

----------------------------------------------------------------------------
(* Requests served while shipments are recorded (specification             *)
(* SpecConcurrent).  A request opens a database session for each read      *)
(* (forecasting.py:28, optimization.py:38, 99, 171); between two reads     *)
(* another session may commit a shipment.  phase = "running" is a request  *)
(* between two of its reads; call carries what it has read so far, and     *)
(* call.seen the states of the transactions table since it began.          *)

\* generate_forecast(method = "auto") after its own read of the history
\* found n dates: the method it chose reads the store again, as `txs`.
auto_forecast_after(n, txs, t, product_id, horizon, lib) ==
    IF n < 7
    THEN InsufficientData("Insufficient data for forecasting. Need at least 7 days of historical data.", 7)
    ELSE IF n < 14
    THEN moving_average_forecast(txs, t, product_id, horizon, Min(7, n))
    ELSE LET made == AutoWithHistory(
                         exponential_smoothing_forecast(txs, t, product_id, horizon, lib),
                         moving_average_forecast(txs, t, product_id, horizon, 14))
         IN  made[Len(made)].ret

\* a seed history whose newest shipment is of yesterday
Yesterdays(h) == [i \in DOMAIN h |-> [h[i] EXCEPT !.timestamp = @ - 1]]

ConcurrentHistories ==
    LET seeds == {h \in SeedHistories : Len(h) \in {6, 13, MaxSeedDays}}
    IN  seeds \cup {Yesterdays(h) : h \in seeds}

InitConcurrent ==
    /\ products = Catalog(1)
    /\ suppliers = Suppliers
    /\ transactions \in ConcurrentHistories
    /\ inventory = InventoryAfter(transactions)
    /\ forecasts = <<>>
    /\ recorded = 0
    /\ now = Today
    /\ phase = "idle"
    /\ call = NoCall
    /\ result = NoResult
    /\ calls = <<>>

\* TransactionService.create_transaction in another session: a shipment is
\* committed while the request is between two reads.
RecordShipmentMeanwhile ==
    /\ phase = "running"
    /\ recorded < MaxNew
    /\ \E row \in {r \in NewRows(now) : r.transaction_type = "shipment"} :
          /\ transactions' = Append(transactions, row)
          /\ inventory' = update_inventory_from_transaction(inventory, row)
    /\ recorded' = recorded + 1
    /\ call' = [call EXCEPT !.seen = @ \cup {transactions'}]
    /\ UNCHANGED <<products, suppliers, forecasts, now, phase, result, calls>>

\* generate_forecast(product_id, horizon, "auto"), up to the choice of the
\* method: df = self.get_historical_demand(product_id, days=90); len(df)
BeginAutoForecast ==
    /\ phase = "idle"
    /\ \E p \in ProductIds, h \in Horizons :
          call' = [op |-> "generate_forecast", product_id |-> p, horizon |-> h,
                   method |-> "auto", lib |-> NoLib,
                   n |-> Len(get_historical_demand(transactions, now, p, 90)),
                   seen |-> {transactions}]
    /\ phase' = "running"
    /\ UNCHANGED <<products, suppliers, inventory, transactions, forecasts,
                   recorded, now, result, calls>>

\* ... and from there: the chosen method reads the history and returns.
FinishAutoForecast ==
    /\ phase = "running"
    /\ call.op = "generate_forecast"
    /\ result' = auto_forecast_after(call.n, transactions, now, call.product_id,
                                     call.horizon, call.lib)
    /\ phase' = "done"
    /\ UNCHANGED <<products, suppliers, inventory, transactions, forecasts,
                   recorded, now, call, calls>>

\* optimize_inventory_levels(product_id), its first call:
\* eoq_result = self.calculate_eoq(product_id)
BeginOptimize ==
    /\ phase = "idle"
    /\ \E p \in ProductIds :
          call' = [op |-> "optimize_inventory_levels", product_id |-> p,
                   lib |-> NoLib, next |-> "calculate_reorder_point",
                   eoq_result |-> calculate_eoq(products, transactions, now, p,
                                                None, I(50), <<1, 4>>, NoLib),
                   reorder_result |-> NoResult,
                   seen |-> {transactions}]
    /\ phase' = "running"
    /\ UNCHANGED <<products, suppliers, inventory, transactions, forecasts,
                   recorded, now, result, calls>>

\* reorder_result = self.calculate_reorder_point(product_id)
OptimizeReorderPoint ==
    /\ phase = "running"
    /\ call.op = "optimize_inventory_levels"
    /\ call.next = "calculate_reorder_point"
    /\ call' = [call EXCEPT
                  !.next = "calculate_safety_stock",
                  !.reorder_result =
                      calculate_reorder_point(products, suppliers, transactions, now,
                                              call.product_id, <<19, 20>>, call.lib)]
    /\ UNCHANGED <<products, suppliers, inventory, transactions, forecasts,
                   recorded, now, phase, result, calls>>

\* safety_stock_result = self.calculate_safety_stock(product_id), and the
\* three results combined
FinishOptimize ==
    /\ phase = "running"
    /\ call.op = "optimize_inventory_levels"
    /\ call.next = "calculate_safety_stock"
    /\ result' = CombinedResult(call.product_id, call.eoq_result, call.reorder_result,
                     calculate_safety_stock(products, suppliers, transactions, now,
                                            call.product_id, <<19, 20>>, None, call.lib))
    /\ phase' = "done"
    /\ UNCHANGED <<products, suppliers, inventory, transactions, forecasts,
                   recorded, now, call, calls>>

NextConcurrent ==
    \/ RecordTransaction
    \/ RecordShipmentMeanwhile
    \/ BeginAutoForecast
    \/ FinishAutoForecast
    \/ BeginOptimize
    \/ OptimizeReorderPoint
    \/ FinishOptimize
    \/ Return

SpecConcurrent == InitConcurrent /\ [][NextConcurrent]_vars

\* What the request c returns when all its reads see the transactions `txs`.
OnOneSnapshot(c, txs) ==
    IF c.op = "generate_forecast"
    THEN generate_forecast(txs, now, c.product_id, c.horizon, "auto", c.lib)
    ELSE optimize_inventory_levels(products, suppliers, txs, now, c.product_id, c.lib)

\* C22: every successful result of generate_forecast(auto) or
\* optimize_inventory_levels served while shipments are recorded equals the
\* result computed on one state of the transactions table that existed
\* between the start of the call and its return.
C22_ResultOfOneSnapshot ==
    (phase = "done" /\ ~IsError(result)) =>
        \E txs \in call.seen : result = OnOneSnapshot(call, txs)

----------------------------------------------------------------------------
(* The model fitted by exponential smoothing (specification SpecForecast) *)

\* the series exponential_smoothing_forecast fits for the request served
ResampledSeries ==
    asfreq(get_historical_demand(transactions, now, call.product_id, 90))

\* C23: exponential_smoothing_forecast fits the additive-trend model only
\* when the resampled series has at least 28 days; on a series of 14 to 27
\* days the forecast is that of the model without trend.
C23_TrendOnlyFromFourWeeks ==
    ForecastDone =>
        \A i \in DOMAIN calls :
            (calls[i].op = "exponential_smoothing" /\ ~IsError(calls[i].ret)) =>
                LET r == calls[i].ret
                IN  /\ r.data_points >= 14
                    /\ r.data_points < 28 =>
                          r.forecast_series =
                              HoltForecast(SimpleFit(ResampledSeries), call.horizon)
                    /\ (r.data_points >= 28 /\ ~call.lib.trend_fit_raises) =>
                          r.forecast_series =
                              HoltForecast(HoltFit(ResampledSeries), call.horizon)

----------------------------------------------------------------------------
(* The days the moving average covers (specification SpecForecast) *)

\* the demand of the `window` calendar days that end on the day `last`,
\* a day without a shipment counting as zero, divided by `window`
CalendarMean(df, window, last) ==
    Norm(ISum(Listed([k \in 1..window |->
                 IF \E j \in DOMAIN df : df[j].date = last - window + k
                 THEN (LET j == CHOOSE j \in DOMAIN df : df[j].date = last - window + k
                       IN  df[j].demand)
                 ELSE 0])),
         window)

\* C24: the daily average of moving_average_forecast is the mean demand of
\* the most recent `window` calendar days (those that end on the day of the
\* newest shipment, or those that end today), a day without a shipment
\* counting as zero demand.
C24_CalendarDayAverage ==
    (phase = "done" /\ call.op = "moving_average_forecast" /\ ~IsError(result)) =>
        LET df == get_historical_demand(transactions, now, call.product_id,
                                        2 * call.window)
        IN  \/ result.daily_average = CalendarMean(df, call.window, df[Len(df)].date)
            \/ result.daily_average = CalendarMean(df, call.window, now)

----------------------------------------------------------------------------
(* The store with its locations.  In the specifications that follow the    *)
(* inventory table is the sequence of its rows, one per product and        *)
(* location, in the order the join yields them, and a row of the           *)
(* transactions table carries its id, its location and its processed flag. *)

\* The locations table: location_id (the name callers use) -> id (the key
\* inventory rows and transactions refer to).
Locations == [l \in {"WH1", "WH2"} |-> IF l = "WH1" THEN 1 ELSE 2]

\* Inventory(product_id, location_id, quantity_on_hand, reserved_quantity,
\* available_quantity)
StockRow(p, loc, on_hand, reserved, available) ==
    [product_id |-> p, location_id |-> loc, quantity_on_hand |-> on_hand,
     reserved_quantity |-> reserved, available_quantity |-> available]

\* session.query(Inventory).filter(product_id, location_id).first(): the
\* index of the first row of the product at the location, 0 when none
StockIndex(inv, p, loc) ==
    LET found == {k \in DOMAIN inv : inv[k].product_id = p /\ inv[k].location_id = loc}
    IN  IF found = {} THEN 0 ELSE CHOOSE k \in found : \A j \in found : k <= j

\* A stock update that takes the quantity on hand for the available one.
StockChangedIgnoringReserved(inv, p, loc, quantity) ==
    LET rows == IF StockIndex(inv, p, loc) = 0
                THEN Append(inv, StockRow(p, loc, 0, 0, 0))
                ELSE inv
        k == StockIndex(rows, p, loc)
    IN  [rows EXCEPT ![k] = StockRow(p, loc, rows[k].quantity_on_hand + quantity,
                                     rows[k].reserved_quantity,
                                     rows[k].quantity_on_hand + quantity)]

\* The inventory record of the product at the location is fetched, or
\* created with zero quantities; inventory.quantity_on_hand += quantity;
\* inventory.available_quantity = quantity_on_hand - reserved_quantity
StockChanged(inv, p, loc, quantity) ==
    LET rows == IF StockIndex(inv, p, loc) = 0
                THEN Append(inv, StockRow(p, loc, 0, 0, 0))
                ELSE inv
        k == StockIndex(rows, p, loc)
    IN  [rows EXCEPT ![k] = StockRow(p, loc, rows[k].quantity_on_hand + quantity,
                                     rows[k].reserved_quantity,
                                     rows[k].quantity_on_hand + quantity
                                         - rows[k].reserved_quantity)]

\* Transaction(transaction_id, product_id, location_id, transaction_type,
\* quantity, timestamp, processed)
Movement(id, p, loc, type, q, ts, processed) ==
    [transaction_id |-> id, product_id |-> p, location_id |-> loc,
     transaction_type |-> type, quantity |-> q, timestamp |-> ts,
     processed |-> processed]

----------------------------------------------------------------------------
(* Recommendations by location (specification SpecLocations) *)

\* session.query(Product, Inventory).join(Inventory), and
\* if location_id: location = ...first(); if location: query.filter(...)
LocationQuery(inv, location_id) ==
    IF location_id # None /\ location_id[1] \in DOMAIN Locations
    THEN SelectSeq(inv, LAMBDA row : row.location_id = Locations[location_id[1]])
    ELSE inv

\* The product with its reorder point as a number (Product.reorder_point is
\* a nullable column: None, or Some(n)).
WithReorderPoint(product) ==
    [product EXCEPT !.reorder_point = IF @ = None THEN 0 ELSE @[1]]

\* The loop over the rows of the query, given the EOQ result of each row.
\* current_stock <= reorder_point raises TypeError on a null reorder point;
\* the comparison is reached only when the row's EOQ has no error, and the
\* handler around the whole loop returns [].
RecommendationsOfRows(prods, query, eoqs) ==
    IF \E k \in DOMAIN query :
          /\ ~IsError(eoqs[k])
          /\ prods[query[k].product_id].reorder_point = None
    THEN <<>>
    ELSE SortedByPriority(Appended(Listed(
             [k \in DOMAIN query |->
                 RecommendationFor(query[k].product_id,
                                   WithReorderPoint(prods[query[k].product_id]),
                                   query[k], eoqs[k])])))

\* The EOQ of each row of the query: self.calculate_eoq(product.id)
EoqOfRows(prods, txs, t, query, lib) ==
    Listed([k \in DOMAIN query |->
              calculate_eoq(prods, txs, t, query[k].product_id, None, I(50),
                            <<1, 4>>, lib)])

\* get_optimization_recommendations(location_id)
recommendations_at(prods, inv, txs, t, location_id, lib) ==
    RecommendationsOfRows(prods, LocationQuery(inv, location_id),
        EoqOfRows(prods, txs, t, LocationQuery(inv, location_id), lib))

\* The catalogue with the reorder point of product 2 left null or not.
LocationCatalogs ==
    {[p \in ListedProducts |->
        [unit_cost |-> I(20), supplier_id |-> 0,
         reorder_point |-> IF p = 2 THEN r ELSE Some(DefaultReorderPoint)]] :
     r \in {None, Some(DefaultReorderPoint)}}

\* Stock of product 1 at both locations, of product 2 at the first and of
\* product 3 at the second.
LocationStock ==
    <<StockRow(1, 1, DefaultReorderPoint \div 2, 0, DefaultReorderPoint \div 2),
      StockRow(2, 1, DefaultReorderPoint, 0, DefaultReorderPoint),
      StockRow(1, 2, 2 * DefaultReorderPoint, 0, 2 * DefaultReorderPoint),
      StockRow(3, 2, DefaultReorderPoint + 2, 0, DefaultReorderPoint + 2)>>

\* location_id: none given, the two locations, and a name no location has
LocationIds == {None, Some("WH1"), Some("WH2"), Some("WH9")}

\* the rows of a history as movements at the first location
AtFirstLocation(h) ==
    [i \in DOMAIN h |->
        Movement(<<h[i].transaction_type, i>>, h[i].product_id, 1,
                 h[i].transaction_type, h[i].quantity, h[i].timestamp, 1)]

InitLocations ==
    /\ products \in LocationCatalogs
    /\ suppliers = Suppliers
    /\ transactions \in {AtFirstLocation(h) : h \in RecHistories}
    /\ inventory = LocationStock
    /\ forecasts = <<>>
    /\ recorded = 0
    /\ now = Today
    /\ phase = "idle"
    /\ call = NoCall
    /\ result = NoResult
    /\ calls = <<>>

\* TransactionService.create_transaction: a processed shipment or receipt
\* of a product at a location, time-stamped now.
RecordMovement ==
    /\ phase = "idle"
    /\ recorded < MaxNew
    /\ \E p \in ProductIds, loc \in {1, 2}, kind \in {"shipment", "receipt"} :
          LET q == IF kind = "shipment" THEN -2 ELSE 3
          IN  /\ transactions' = Append(transactions,
                     Movement(<<kind, Len(transactions) + 1>>, p, loc, kind, q, now, 1))
              /\ inventory' = StockChanged(inventory, p, loc, q)
    /\ recorded' = recorded + 1
    /\ UNCHANGED <<products, suppliers, forecasts, now, phase, call, result, calls>>

\* OptimizationService.get_optimization_recommendations(location_id)
GetRecommendationsAt ==
    /\ phase = "idle"
    /\ \E location_id \in LocationIds :
       \E lib \in Library(TRUE, 1) :
          /\ call' = [op |-> "get_optimization_recommendations",
                      location_id |-> location_id, lib |-> lib]
          /\ result' = recommendations_at(products, inventory, transactions, now,
                                          location_id, lib)
    /\ calls' = <<>>
    /\ phase' = "done"
    /\ UNCHANGED <<products, suppliers, inventory, transactions, forecasts, recorded, now>>

NextLocations == RecordMovement \/ GetRecommendationsAt \/ Return

SpecLocations == InitLocations /\ [][NextLocations]_vars

\* the rows of the query whose handling raises nothing outside the EOQ
\* calculation
WithoutNullRows(prods, query) ==
    SelectSeq(query, LAMBDA row : prods[row.product_id].reorder_point # None)

\* C25: when handling one product raises outside its EOQ calculation (its
\* stored reorder_point is null), get_optimization_recommendations omits that
\* product only: it returns what it returns for the other rows of the query.
C25_OnlyFailingProductOmitted ==
    Recommended =>
        LET rest == WithoutNullRows(products, LocationQuery(inventory, call.location_id))
        IN  result = RecommendationsOfRows(products, rest,
                         EoqOfRows(products, transactions, now, rest, call.lib))

\* the inventory rows held at the location named location_id
HeldAt(inv, location_id) ==
    SelectSeq(inv, LAMBDA row :
        /\ location_id \in DOMAIN Locations
        /\ row.location_id = Locations[location_id])

\* C26: get_optimization_recommendations(location_id) returns records of
\* inventory held at that location only: what it returns is what the rows of
\* that location yield, and nothing for a location_id no location has.
C26_OnlyRequestedLocation ==
    (Recommended /\ call.location_id # None) =>
        LET held == HeldAt(inventory, call.location_id[1])
        IN  result = RecommendationsOfRows(products, held,
                         EoqOfRows(products, transactions, now, held, call.lib))

----------------------------------------------------------------------------
(* Safety stock and service level (specification SpecOptim) *)

\* the safety stock of the request served, at the service level sl instead
SafetyStockAt(sl) ==
    IF call.op = "calculate_safety_stock"
    THEN calculate_safety_stock(products, suppliers, transactions, now,
                                call.product_id, sl, call.demand_variability, call.lib)
    ELSE calculate_reorder_point(products, suppliers, transactions, now,
                                 call.product_id, sl, call.lib)

\* C27: for a fixed product and demand, the safety stock computed by
\* calculate_reorder_point and by calculate_safety_stock does not decrease
\* when the requested service level rises, whether or not the z-score table
\* lists the level.
C27_SafetyStockMonotone ==
    (Succeeded("calculate_safety_stock") \/ Succeeded("calculate_reorder_point")) =>
        \A sl \in ServiceLevels :
            RLe(call.service_level, sl) =>
                RLe(result.safety_stock, SafetyStockAt(sl).safety_stock)

----------------------------------------------------------------------------
(* The branches of exponential smoothing (specification SpecForecast) *)

\* What exponential_smoothing_forecast returns for the request served when
\* the fits of the resampled series y end as call.lib says: the forecast of
\* the trend fit, or after it raised that of the one fit without trend, or
\* after that raised too the error.
FittedForecast(y) ==
    IF ~call.lib.trend_fit_raises
    THEN SmoothingResult(call.product_id, call.horizon,
                         HoltForecast(HoltFit(y), call.horizon), Len(y))
    ELSE IF ~call.lib.simple_fit_raises
    THEN SmoothingResult(call.product_id, call.horizon,
                         HoltForecast(SimpleFit(y), call.horizon), Len(y))
    ELSE CalculationFailed

\* C28: a call of exponential_smoothing_forecast whose history has fewer
\* than 14 dates returns the insufficient-data error; every other call works
\* on a resampled series that is no shorter than the history, hence of at
\* least 14 days, and returns the forecast of a fitted model (the trend fit,
\* or the one retry without trend after the trend fit raised) or, when the
\* retry raised as well, an error: never the flat forecast of the fixed
\* alpha of 0.3.
C28_FlatFallbackNeverTaken ==
    ForecastDone =>
        \A i \in DOMAIN calls :
            calls[i].op = "exponential_smoothing" =>
                IF HistoryDays(90) < 14
                THEN calls[i].ret = InsufficientData(
                         "Insufficient data. Need at least 14 days of data.", 14)
                ELSE /\ Len(ResampledSeries) >= HistoryDays(90)
                     /\ calls[i].ret = FittedForecast(ResampledSeries)

\* C28 happens: the history has gaps, so that the resampled series is longer
\* than it; the trend fit raised, the fit without trend was tried and its
\* forecast returned.
C28_Witness ==
    /\ Generated("exponential_smoothing")
    /\ call.lib.trend_fit_raises
    /\ ~call.lib.simple_fit_raises
    /\ ~IsError(result)
    /\ result.data_points > HistoryDays(90)
    /\ HistoryDays(90) >= 14

----------------------------------------------------------------------------
(* Stock movements (specification SpecStock): InventoryService.            *)
(* update_stock_level, TransactionService.create_transaction and           *)
(* process_expected_receipt, SimulationService.simulate_daily_operations.  *)
(* Each runs in one database session, committed when it returns and rolled *)
(* back when it raises.                                                    *)

MaxMoves == 2         \* calls that write movements while the model runs

\* the index of the row with the transaction_id, 0 when there is none
\* (transaction_id is a unique column)
TransactionIndex(txs, transaction_id) ==
    LET found == {k \in DOMAIN txs : txs[k].transaction_id = transaction_id}
    IN  IF found = {} THEN 0 ELSE CHOOSE k \in found : \A j \in found : k <= j

\* _update_inventory_from_transaction(session, transaction): the quantity of
\* a receipt, an adjustment or a shipment is added to the stock of its
\* product and location
stock_after_transaction(inv, row) ==
    IF row.transaction_type \in {"receipt", "adjustment", "shipment"}
    THEN StockChanged(inv, row.product_id, row.location_id, row.quantity)
    ELSE inv

\* create_transaction(transaction_data): the row is added; the inventory is
\* updated if transaction.processed == 1 and the type is a receipt, a
\* shipment or an adjustment.
create_transaction(inv, txs, row) ==
    [inventory    |-> IF /\ row.processed = 1
                         /\ row.transaction_type \in {"receipt", "shipment", "adjustment"}
                      THEN stock_after_transaction(inv, row)
                      ELSE inv,
     transactions |-> Append(txs, row)]

\* update_stock_level(product_id, location_id, quantity_change,
\* transaction_type): the stock record is fetched or created and changed, and
\* a transaction row is added whose id is built from the type, the second of
\* the clock and the product; when a row with that id exists the flush fails
\* and the session is rolled back.
update_stock_level(inv, txs, p, loc, quantity_change, type, second, t) ==
    IF TransactionIndex(txs, <<type, second, p>>) # 0
    THEN [inventory |-> inv, transactions |-> txs]
    ELSE [inventory    |-> StockChanged(inv, p, loc, quantity_change),
          transactions |-> Append(txs, Movement(<<type, second, p>>, p, loc, type,
                                                quantity_change, t, 1))]

\* A process_expected_receipt that takes any transaction it finds.
ProcessAnyTransaction(inv, txs, transaction_id, actual_quantity) ==
    LET k == TransactionIndex(txs, transaction_id)
    IN  IF k = 0
        THEN [returns |-> FALSE, inventory |-> inv, transactions |-> txs]
        ELSE LET transaction == [txs[k] EXCEPT !.transaction_type = "receipt",
                                               !.quantity = actual_quantity,
                                               !.processed = 1]
             IN  [returns      |-> TRUE,
                  inventory    |-> stock_after_transaction(inv, transaction),
                  transactions |-> [txs EXCEPT ![k] = transaction]]

\* process_expected_receipt(transaction_id, actual_quantity):
\* if not transaction or transaction.transaction_type != 'expected_receipt':
\* return False; else the row becomes a processed receipt of the actual
\* quantity and the inventory is updated from it.
process_expected_receipt(inv, txs, transaction_id, actual_quantity) ==
    LET k == TransactionIndex(txs, transaction_id)
    IN  IF k = 0 \/ txs[k].transaction_type # "expected_receipt"
        THEN [returns |-> FALSE, inventory |-> inv, transactions |-> txs]
        ELSE LET transaction == [txs[k] EXCEPT !.transaction_type = "receipt",
                                               !.quantity = actual_quantity,
                                               !.processed = 1]
             IN  [returns      |-> TRUE,
                  inventory    |-> stock_after_transaction(inv, transaction),
                  transactions |-> [txs EXCEPT ![k] = transaction]]

\* simulate_daily_operations(days), one movement standing for the 10 to 30
\* of a day: a shipment of one unit of product 1 at the location, time-
\* stamped now + day; the stock record is changed if there is one
\* (`if inventory:`), and none is created.
RECURSIVE simulate_daily_operations(_, _, _, _, _)
simulate_daily_operations(inv, txs, loc, days, t) ==
    IF days = 0 THEN [inventory |-> inv, transactions |-> txs]
    ELSE LET before == simulate_daily_operations(inv, txs, loc, days - 1, t)
             row == Movement(<<"SIM_shipment", Len(before.transactions) + 1>>,
                             1, loc, "shipment", -1, t + days - 1, 1)
         IN  [inventory    |-> IF StockIndex(before.inventory, 1, loc) # 0
                               THEN StockChanged(before.inventory, 1, loc, -1)
                               ELSE before.inventory,
              transactions |-> Append(before.transactions, row)]

\* The rows a caller of create_transaction brings (process_uploaded_document
\* among them: an expected receipt with processed = 0 for an item of a
\* purchase order, a processed receipt for an item of a delivery order); the
\* id is the type and a fresh suffix.
NewTransactions(txs, t) ==
    LET n == Len(txs) + 1
    IN  {Movement(<<"receipt", n>>, 1, 1, "receipt", 3, t, 1),
         Movement(<<"expected_receipt", n>>, 1, 1, "expected_receipt", 4, t, 0),
         Movement(<<"expected_receipt", n>>, 1, 2, "expected_receipt", 4, t, 0),
         Movement(<<"expected_receipt", n>>, 1, 1, "expected_receipt", 4, t, 1)}

\* The stock the movements start from: 50 units of product 1 at the first
\* location, 5 of them reserved, and no record at the second location;
\* no transaction yet, or one receipt that is expected at the first location.
InitStock ==
    /\ products = Catalog(0)
    /\ suppliers = Suppliers
    /\ inventory = <<StockRow(1, 1, 50, 5, 45)>>
    /\ transactions \in
          {<<>>,
           <<Movement(<<"expected_receipt", 0>>, 1, 1, "expected_receipt", 4, Today - 1, 0)>>}
    /\ forecasts = <<>>
    /\ recorded = 0
    /\ now = Today
    /\ phase = "idle"
    /\ call = NoCall
    /\ result = NoResult
    /\ calls = <<>>

\* InventoryService.update_stock_level(product_id, location_id,
\* quantity_change) with the default type "adjustment"
UpdateStockLevel ==
    /\ phase = "idle"
    /\ recorded < MaxMoves
    /\ \E loc \in {1, 2}, second \in {0, 1} :
          LET after == update_stock_level(inventory, transactions, 1, loc, -2,
                                          "adjustment", second, now)
          IN  /\ inventory' = after.inventory
              /\ transactions' = after.transactions
    /\ recorded' = recorded + 1
    /\ UNCHANGED <<products, suppliers, forecasts, now, phase, call, result, calls>>

\* TransactionService.create_transaction(transaction_data)
CreateTransaction ==
    /\ phase = "idle"
    /\ recorded < MaxMoves
    /\ \E row \in NewTransactions(transactions, now) :
          LET after == create_transaction(inventory, transactions, row)
          IN  /\ inventory' = after.inventory
              /\ transactions' = after.transactions
    /\ recorded' = recorded + 1
    /\ UNCHANGED <<products, suppliers, forecasts, now, phase, call, result, calls>>

\* SimulationService.simulate_daily_operations(days)
SimulateDays ==
    /\ phase = "idle"
    /\ recorded < MaxMoves
    /\ \E loc \in {1, 2}, days \in 1..MaxSimDays :
          LET after == simulate_daily_operations(inventory, transactions, loc, days, now)
          IN  /\ inventory' = after.inventory
              /\ transactions' = after.transactions
    /\ recorded' = recorded + 1
    /\ UNCHANGED <<products, suppliers, forecasts, now, phase, call, result, calls>>

\* the ids callers ask for: those of the rows of the table, and an id that
\* no row has
KnownIds == {transactions[k].transaction_id : k \in DOMAIN transactions}

ActualQuantities == {4, 6}

\* TransactionService.process_expected_receipt(transaction_id, actual_quantity)
ProcessExpectedReceipt ==
    /\ phase = "idle"
    /\ \E transaction_id \in KnownIds \cup {<<"unknown", 0>>},
          actual_quantity \in ActualQuantities :
          LET after == process_expected_receipt(inventory, transactions,
                                                transaction_id, actual_quantity)
          IN  /\ call' = [op |-> "process_expected_receipt",
                          transaction_id |-> transaction_id,
                          actual_quantity |-> actual_quantity]
              /\ result' = after.returns
              /\ inventory' = after.inventory
              /\ transactions' = after.transactions
    /\ calls' = <<>>
    /\ phase' = "done"
    /\ UNCHANGED <<products, suppliers, forecasts, recorded, now>>

NextStock ==
    \/ UpdateStockLevel
    \/ CreateTransaction
    \/ SimulateDays
    \/ ProcessExpectedReceipt
    \/ Return

SpecStock == InitStock /\ [][NextStock]_vars

\* C29: after any sequence of update_stock_level, create_transaction,
\* process_expected_receipt and simulate_daily_operations calls, every
\* inventory record satisfies available_quantity = quantity_on_hand -
\* reserved_quantity (the records the calls touched among them).
C29_AvailableIsOnHandLessReserved ==
    \A k \in DOMAIN inventory :
        inventory[k].available_quantity =
            inventory[k].quantity_on_hand - inventory[k].reserved_quantity

\* C29 happens: the record with reserved units was changed by the calls
\* made (an expected receipt was processed among them), and a record was
\* created for the second location.
C29_Witness ==
    /\ recorded = MaxMoves
    /\ phase = "done" /\ call.op = "process_expected_receipt" /\ result = TRUE
    /\ \E k \in DOMAIN inventory :
          /\ inventory[k].reserved_quantity = 5
          /\ inventory[k].quantity_on_hand \notin {50, 50 + call.actual_quantity}
          /\ inventory[k].available_quantity = inventory[k].quantity_on_hand - 5
    /\ StockIndex(inventory, 1, 2) # 0

\* quantity_on_hand of the product at the location, 0 when it has no record
OnHand(inv, p, loc) ==
    IF StockIndex(inv, p, loc) = 0 THEN 0
    ELSE inv[StockIndex(inv, p, loc)].quantity_on_hand

\* the stock of every product and location but the one given is the same in
\* the two tables
SameElsewhere(inv, after, p, loc) ==
    \A q \in ProductIds, l \in {1, 2} :
        (q # p \/ l # loc) => OnHand(after, q, l) = OnHand(inv, q, l)

\* the step adds an expected receipt that is not processed
ExpectedReceiptCreated ==
    /\ Len(transactions') = Len(transactions) + 1
    /\ transactions'[Len(transactions')].transaction_type = "expected_receipt"
    /\ transactions'[Len(transactions')].processed = 0

\* the step serves process_expected_receipt
ReceiptProcessed ==
    phase = "idle" /\ phase' = "done" /\ call'.op = "process_expected_receipt"

\* C30: an expected receipt changes the quantity on hand exactly once.
\* Creating it with processed = 0 leaves the inventory as it was.
\* process_expected_receipt(transaction_id, actual_quantity) on a row that is
\* an expected receipt returns True, makes the row a processed receipt of
\* actual_quantity and adds actual_quantity to the stock of its product and
\* location, and to no other; on an id that no row has, or on a row that is
\* not an expected receipt - one processed before included - it returns
\* False and changes neither table.
C30_ExpectedReceiptCountsOnce ==
    [][/\ ExpectedReceiptCreated => inventory' = inventory
       /\ ReceiptProcessed =>
             LET k == TransactionIndex(transactions, call'.transaction_id)
             IN  IF k # 0 /\ transactions[k].transaction_type = "expected_receipt"
                 THEN /\ result' = TRUE
                      /\ transactions' =
                            [transactions EXCEPT ![k] =
                                [@ EXCEPT !.transaction_type = "receipt",
                                          !.quantity = call'.actual_quantity,
                                          !.processed = 1]]
                      /\ OnHand(inventory', transactions[k].product_id,
                                transactions[k].location_id)
                            = OnHand(inventory, transactions[k].product_id,
                                     transactions[k].location_id)
                              + call'.actual_quantity
                      /\ SameElsewhere(inventory, inventory',
                                       transactions[k].product_id,
                                       transactions[k].location_id)
                 ELSE /\ result' = FALSE
                      /\ UNCHANGED <<inventory, transactions>>]_vars

\* C30 happens: process_expected_receipt was called again for a receipt that
\* was created as an expected one and processed before, with another
\* quantity; it returned False and the stock stands at what the first call
\* made it.
C30_Witness ==
    /\ phase = "done" /\ call.op = "process_expected_receipt"
    /\ result = FALSE
    /\ call.transaction_id[1] = "expected_receipt"
    /\ call.actual_quantity = 6
    /\ LET k == TransactionIndex(transactions, call.transaction_id)
       IN  /\ k # 0
           /\ transactions[k].transaction_type = "receipt"
           /\ transactions[k].processed = 1
           /\ transactions[k].quantity = 4
           /\ transactions[k].location_id = 2
           /\ OnHand(inventory, 1, 2) = 4

====
